---- MODULE Spec2Model ----
(***************************************************************************)
(* Celesca/scamper: the Watchtower CT-log monitor.                         *)
(*                                                                         *)
(* Modelled here: the dnstwist-style DomainFuzzer, the TargetConfig, the   *)
(* PermutationDatabase (index), the risk scorer and the certificate-event   *)
(* handlers of the CLI monitor (watchtower.py) and of the dashboard        *)
(* service (watchtower_api.py), and the three-layer DeepDomainAnalyzer     *)
(* (deep_analyzer.py) with its process-wide browser flags.                 *)
(*                                                                         *)
(* Python str values are TLA+ strings; Len, \o and SubSeq act on them as    *)
(* on any sequence.  Slices are written with Prefix/Suffix so that the     *)
(* 0-based indices of the source can be kept.                              *)
(***************************************************************************)
EXTENDS Integers, Sequences, FiniteSets, TLC

VARIABLES
    fuzzer,       \* a DomainFuzzer object: [domain, permutations]
    fuzzCalls,    \* number of generate_all() calls made on that object
    prog,         \* which program this process runs: "cli" (watchtower.py), "svc" (app.py),
                  \* "deep" (a caller of deep_analyzer.py)
    hashSeed,     \* the per-process str hash seed, which fixes set iteration order
    is_running,   \* Watchtower.is_running / WatchtowerService.is_running
    stats,        \* LiveStats / WatchtowerStats counters
    detections,   \* self.detections
    output,       \* rows of the persisted detection log (output_file)
    emitted,      \* alerts printed (cli) / 'new_detection' events emitted (svc)
    errors,       \* number of "Error processing cert" reports
    call,         \* the method applied to the constructed object, with its arguments
    ret,          \* the value that method returned
    threads,      \* the threads of _run_monitor started so far: "listening" or "ended"
    sent,         \* number of messages the CertStream aggregator has sent so far
    wire,         \* the message last sent: [message, left, processed]
    _lock,        \* WatchtowerService._lock: the thread that holds it, or 0
    frames,       \* the frame of _on_cert_event in each thread of _run_monitor
    HAS_PLAYWRIGHT,      \* deep_analyzer.HAS_PLAYWRIGHT: the import succeeded
    PLAYWRIGHT_WORKING,  \* deep_analyzer.PLAYWRIGHT_WORKING, the process-wide flag
    launches,     \* number of p.chromium.launch calls made so far
    pc            \* where the one call of DeepDomainAnalyzer.analyze stands

\* a process that has not imported deep_analyzer
NoAnalyzer ==
    /\ HAS_PLAYWRIGHT = FALSE /\ PLAYWRIGHT_WORKING = FALSE
    /\ launches = 0 /\ pc = "none"

\* the subscriptions of the service to the CertStream aggregator
feed == <<threads, sent, wire>>

\* the service lock and the handler frames of the listener threads
sync == <<_lock, frames>>

\* the state of the deep analyzer, besides call and ret
deep == <<HAS_PLAYWRIGHT, PLAYWRIGHT_WORKING, launches, pc>>

vars == <<fuzzer, fuzzCalls, prog, hashSeed, is_running, stats,
          detections, output, emitted, errors, call, ret, feed, sync, deep>>

(***************************************************************************)
(* Bounds of the model.                                                    *)
(***************************************************************************)
MaxBrandLen == 2        \* longest raw label enumerated over BrandAlphabet
MaxGenerateCalls == 2   \* generate_all() calls per DomainFuzzer object

(***************************************************************************)
(* Python string primitives.                                               *)
(***************************************************************************)
None == [none |-> TRUE]

Min(a, b) == IF a <= b THEN a ELSE b

\* s[i] with the 0-based index of the source
At(s, i) == SubSeq(s, i + 1, i + 1)

\* s[:n]
Prefix(s, n) == SubSeq(s, 1, n)

\* s[n:]
Suffix(s, n) == SubSeq(s, n + 1, Len(s))

\* ord(c) for the characters of the model's alphabet
Ord ==
    "a" :> 97 @@ "b" :> 98 @@ "c" :> 99 @@ "d" :> 100 @@ "e" :> 101 @@ "f" :> 102 @@ "g" :> 103 @@
    "h" :> 104 @@ "i" :> 105 @@ "j" :> 106 @@ "k" :> 107 @@ "l" :> 108 @@ "m" :> 109 @@ "n" :> 110 @@
    "o" :> 111 @@ "p" :> 112 @@ "q" :> 113 @@ "r" :> 114 @@ "s" :> 115 @@ "t" :> 116 @@ "u" :> 117 @@
    "v" :> 118 @@ "w" :> 119 @@ "x" :> 120 @@ "y" :> 121 @@ "z" :> 122 @@ "0" :> 48 @@ "1" :> 49 @@
    "2" :> 50 @@ "3" :> 51 @@ "4" :> 52 @@ "5" :> 53 @@ "6" :> 54 @@ "7" :> 55 @@ "8" :> 56 @@
    "9" :> 57 @@ "-" :> 45 @@ "A" :> 65 @@ "B" :> 66 @@ "C" :> 67 @@ "D" :> 68 @@ "E" :> 69 @@
    "F" :> 70 @@ "G" :> 71 @@ "H" :> 72 @@ "I" :> 73 @@ "J" :> 74 @@ "K" :> 75 @@ "L" :> 76 @@
    "M" :> 77 @@ "N" :> 78 @@ "O" :> 79 @@ "P" :> 80 @@ "Q" :> 81 @@ "R" :> 82 @@ "S" :> 83 @@
    "T" :> 84 @@ "U" :> 85 @@ "V" :> 86 @@ "W" :> 87 @@ "X" :> 88 @@ "Y" :> 89 @@ "Z" :> 90 @@
    "." :> 46 @@ "*" :> 42 @@ " " :> 32 @@ "@" :> 64 @@ "(" :> 40 @@ "!" :> 33 @@ "|" :> 124 @@
    "$" :> 36 @@ "+" :> 43

Chars == DOMAIN Ord

\* c.lower() for the characters that have a lower-case form
LowerOf ==
    "A" :> "a" @@ "B" :> "b" @@ "C" :> "c" @@ "D" :> "d" @@ "E" :> "e" @@ "F" :> "f" @@ "G" :> "g" @@
    "H" :> "h" @@ "I" :> "i" @@ "J" :> "j" @@ "K" :> "k" @@ "L" :> "l" @@ "M" :> "m" @@ "N" :> "n" @@
    "O" :> "o" @@ "P" :> "p" @@ "Q" :> "q" @@ "R" :> "r" @@ "S" :> "s" @@ "T" :> "t" @@ "U" :> "u" @@
    "V" :> "v" @@ "W" :> "w" @@ "X" :> "x" @@ "Y" :> "y" @@ "Z" :> "z"

LowerCase == "abcdefghijklmnopqrstuvwxyz"

\* c.lower() for one character
LowerChar(c) == IF c \in DOMAIN LowerOf THEN LowerOf[c] ELSE c

\* s.lower()
RECURSIVE Lower(_)
Lower(s) == IF s = "" THEN "" ELSE LowerChar(Prefix(s, 1)) \o Lower(Suffix(s, 1))

\* s.strip()
RECURSIVE Strip(_)
Strip(s) ==
    IF s = "" THEN ""
    ELSE IF Prefix(s, 1) = " " THEN Strip(Suffix(s, 1))
    ELSE IF Suffix(s, Len(s) - 1) = " " THEN Strip(Prefix(s, Len(s) - 1))
    ELSE s

\* s.startswith(p)
StartsWith(s, p) == Len(p) <= Len(s) /\ Prefix(s, Len(p)) = p

\* s.endswith(p)
EndsWith(s, p) == Len(p) <= Len(s) /\ Suffix(s, Len(s) - Len(p)) = p

\* p in s
Contains(s, p) ==
    \E i \in 0..(Len(s) - Len(p)) : SubSeq(s, i + 1, i + Len(p)) = p

\* s.count(c) for a one-character c
Count(s, c) == Cardinality({i \in 0..(Len(s) - 1) : At(s, i) = c})

\* s.split('.')
RECURSIVE Split(_)
Split(s) ==
    IF \E i \in 0..(Len(s) - 1) : At(s, i) = "."
    THEN LET i == CHOOSE i \in 0..(Len(s) - 1) :
                      At(s, i) = "." /\ \A j \in 0..(i - 1) : At(s, j) # "."
         IN  <<Prefix(s, i)>> \o Split(Suffix(s, i + 1))
    ELSE <<s>>

\* '.'.join(parts)
RECURSIVE Join(_)
Join(parts) ==
    IF parts = <<>> THEN ""
    ELSE IF Len(parts) = 1 THEN parts[1]
    ELSE parts[1] \o "." \o Join(Tail(parts))

\* the elements of a list or the characters of a str, as a set of indices / values
Range(f) == {f[i] : i \in DOMAIN f}

(***************************************************************************)
(* DomainFuzzer (watchtower.py:51-216)                                     *)
(***************************************************************************)
QWERTY ==
    "1" :> "2q" @@ "2" :> "3wq1" @@ "3" :> "4ew2" @@ "4" :> "5re3" @@ "5" :> "6tr4" @@
    "6" :> "7yt5" @@ "7" :> "8uy6" @@ "8" :> "9iu7" @@ "9" :> "0oi8" @@ "0" :> "po9" @@
    "q" :> "12wa" @@ "w" :> "3esaq2" @@ "e" :> "4rdsw3" @@ "r" :> "5tfde4" @@ "t" :> "6ygfr5" @@
    "y" :> "7uhgt6" @@ "u" :> "8ijhy7" @@ "i" :> "9okju8" @@ "o" :> "0plki9" @@ "p" :> "lo0" @@
    "a" :> "qwsz" @@ "s" :> "edxzaw" @@ "d" :> "rfcxse" @@ "f" :> "tgvcdr" @@ "g" :> "yhbvft" @@
    "h" :> "ujnbgy" @@ "j" :> "ikmnhu" @@ "k" :> "olmji" @@ "l" :> "kop" @@ "z" :> "asx" @@
    "x" :> "zsdc" @@ "c" :> "xdfv" @@ "v" :> "cfgb" @@ "b" :> "vghn" @@ "n" :> "bhjm" @@
    "m" :> "njk"

HOMOGLYPHS ==
    "0" :> <<"o">> @@ "1" :> <<"l", "i">> @@ "3" :> <<"8">> @@ "6" :> <<"9">> @@
    "8" :> <<"3">> @@ "9" :> <<"6">> @@ "a" :> <<"4", "@">> @@ "b" :> <<"d", "6">> @@
    "c" :> <<"e", "(">> @@ "d" :> <<"b", "cl">> @@ "e" :> <<"3", "c">> @@ "g" :> <<"q", "9">> @@
    "h" :> <<"n">> @@ "i" :> <<"1", "l", "!">> @@ "k" :> <<"lc">> @@ "l" :> <<"1", "i", "|">> @@
    "m" :> <<"n", "nn", "rn">> @@ "n" :> <<"m", "r">> @@ "o" :> <<"0">> @@ "q" :> <<"g">> @@
    "r" :> <<"n">> @@ "s" :> <<"5", "$">> @@ "t" :> <<"7", "+">> @@ "u" :> <<"v">> @@
    "v" :> <<"u">> @@ "w" :> <<"vv">> @@ "rn" :> <<"m">> @@ "cl" :> <<"d">>

ADDITIONS ==
    << "secure", "login", "signin", "verify", "update", "confirm",
       "account", "online", "mobile", "app", "auth", "portal",
       "service", "support", "help", "official", "real", "true",
       "thailand", "thai", "th", "bkk" >>

\* self.QWERTY.get(c, '')
QwertyGet(c) == IF c \in DOMAIN QWERTY THEN QWERTY[c] ELSE ""

\* self.HOMOGLYPHS.get(c, [])
HomoglyphsGet(c) == IF c \in DOMAIN HOMOGLYPHS THEN HOMOGLYPHS[c] ELSE <<>>

masks == {1, 2, 4, 8, 16, 32, 64, 128}

\* chars = set('abcdefghijklmnopqrstuvwxyz0123456789-')
BitChars == {SubSeq(LowerCase, i, i) : i \in 1..26} \cup
            {SubSeq("0123456789-", i, i) : i \in 1..11}

\* n ^ mask for a one-bit mask
Xor(n, mask) == IF (n \div mask) % 2 = 1 THEN n - mask ELSE n + mask

\* the characters b = chr(ord(c) ^ mask) with b in chars
BitFlips(c) == {b \in BitChars : \E mask \in masks : Ord[b] = Xor(Ord[c], mask)}

Positions(d) == 0..(Len(d) - 1)

_bitsquatting(d) ==
    UNION {{Prefix(d, i) \o b \o Suffix(d, i + 1) : b \in BitFlips(At(d, i))} :
           i \in Positions(d)}

_homoglyph(d) ==
    UNION {{Prefix(d, i) \o g \o Suffix(d, i + 1) :
                g \in Range(HomoglyphsGet(At(d, i)))} : i \in Positions(d)}
    \cup
    UNION {{Prefix(d, i) \o g \o Suffix(d, i + 2) :
                g \in Range(HomoglyphsGet(SubSeq(d, i + 1, i + 2)))} :
           i \in 0..(Len(d) - 2)}

_hyphenation(d) == {Prefix(d, i) \o "-" \o Suffix(d, i) : i \in 1..(Len(d) - 1)}

_insertion(d) ==
    UNION {UNION {{Prefix(d, i) \o At(QwertyGet(At(d, i)), j) \o Suffix(d, i),
                   Prefix(d, i + 1) \o At(QwertyGet(At(d, i)), j) \o Suffix(d, i + 1)} :
                  j \in Positions(QwertyGet(At(d, i)))} : i \in Positions(d)}

_omission(d) == {Prefix(d, i) \o Suffix(d, i + 1) : i \in Positions(d)}

_repetition(d) == {Prefix(d, i) \o At(d, i) \o Suffix(d, i) : i \in Positions(d)}

_replacement(d) ==
    UNION {{Prefix(d, i) \o At(QwertyGet(At(d, i)), j) \o Suffix(d, i + 1) :
                j \in Positions(QwertyGet(At(d, i)))} : i \in Positions(d)}

_transposition(d) ==
    {Prefix(d, i) \o At(d, i + 1) \o At(d, i) \o Suffix(d, i + 2) : i \in 0..(Len(d) - 2)}

vowels == "aeiou"

_vowel_swap(d) ==
    UNION {{Prefix(d, i) \o v \o Suffix(d, i + 1) :
                v \in {w \in Range([k \in 1..Len(vowels) |-> SubSeq(vowels, k, k)]) :
                           w # At(d, i)}} :
           i \in {k \in Positions(d) : Contains(vowels, At(d, k))}}

_addition(d) ==
    UNION {{word \o d, d \o word, word \o "-" \o d, d \o "-" \o word} :
           word \in Range(ADDITIONS)}

\* the names of the list `fuzzers` of generate_all, in its order
fuzzers ==
    << "bitsquatting", "homoglyph", "hyphenation", "insertion", "omission",
       "repetition", "replacement", "transposition", "vowel-swap", "addition" >>

\* func() for the entry `name` of the list `fuzzers`
Generate(name, d) ==
    CASE name = "bitsquatting"  -> _bitsquatting(d)
      [] name = "homoglyph"     -> _homoglyph(d)
      [] name = "hyphenation"   -> _hyphenation(d)
      [] name = "insertion"     -> _insertion(d)
      [] name = "omission"      -> _omission(d)
      [] name = "repetition"    -> _repetition(d)
      [] name = "replacement"   -> _replacement(d)
      [] name = "transposition" -> _transposition(d)
      [] name = "vowel-swap"    -> _vowel_swap(d)
      [] name = "addition"      -> _addition(d)

\* Keep without the test `domain != self.domain`
KeepEmptyOnly(domain, self_domain) == domain # ""

\* the filter of generate_all: `if domain and domain != self.domain`
Keep(domain, self_domain) == domain # "" /\ domain # self_domain

\* DomainFuzzer.generate_all: the set of (domain, type) tuples
generate_all(self_domain) ==
    UNION {{<<domain, name>> : domain \in {x \in Generate(name, self_domain) :
                                                Keep(x, self_domain)}} :
           name \in Range(fuzzers)}

\* DomainFuzzer.__init__
NewFuzzer(domain) == [domain |-> Strip(Lower(domain)), permutations |-> {}]

(***************************************************************************)
(* TargetConfig (watchtower.py:223-276).  The three brand lists are the    *)
(* default lists cut to a few brands, in their configured order; the       *)
(* whitelist and the suspicious TLDs are the complete default lists.       *)
(***************************************************************************)
thai_banks == << "kbank", "scb", "gsb" >>

thai_gov == << "baac" >>

thai_ewallet == << "airpay" >>

whitelist ==
    << "kasikornbank.com", "kbank.com", "kasikorn.com", "scb.co.th",
       "scbeasy.com", "krungthai.com", "ktb.co.th", "bangkokbank.com",
       "bbl.co.th", "krungsri.com", "bay.co.th", "ttbbank.com",
       "gsb.or.th", "truemoney.com", "truewallet.com", "line.me",
       "linepay.line.me", "shopee.co.th", "lazada.co.th", "google.com",
       "microsoft.com", "apple.com" >>

suspicious_tlds ==
    << ".xyz", ".top", ".club", ".online", ".site", ".info", ".work",
       ".click", ".link", ".buzz", ".live", ".store", ".space", ".fun",
       ".icu", ".pw", ".cc", ".tk", ".ml", ".ga", ".cf",
       ".gq", ".cam", ".rest", ".monster" >>

\* TargetConfig.get_all_targets
get_all_targets == thai_banks \o thai_gov \o thai_ewallet

(***************************************************************************)
(* Iteration order of a set of (str, str) tuples.  CPython visits a set in *)
(* hash-table order, and the hash of a str depends on the per-process      *)
(* hash seed; the source relies on no particular order.  The model takes,  *)
(* for each seed, one total order of the pairs: by HashPos, then by label. *)
(* Over the seeds every pair of one label is visited before every other    *)
(* pair of that label.                                                     *)
(***************************************************************************)
NumFuzzers == Len(fuzzers)

RuleRank(name) == CHOOSE i \in 1..NumFuzzers : fuzzers[i] = name

HashPos(seed, pair) ==
    LET r == (RuleRank(pair[2]) + (seed \div 2)) % NumFuzzers
    IN  IF seed % 2 = 0 THEN r ELSE NumFuzzers - 1 - r

\* a < b in the order of code points
RECURSIVE StrLess(_, _)
StrLess(a, b) ==
    IF b = "" THEN FALSE
    ELSE IF a = "" THEN TRUE
    ELSE IF Prefix(a, 1) = Prefix(b, 1) THEN StrLess(Suffix(a, 1), Suffix(b, 1))
    ELSE Ord[Prefix(a, 1)] < Ord[Prefix(b, 1)]

\* pair p is visited before pair q when a set holding both is iterated
VisitedBefore(seed, p, q) ==
    \/ HashPos(seed, p) < HashPos(seed, q)
    \/ /\ HashPos(seed, p) = HashPos(seed, q)
       /\ IF seed % 2 = 0 THEN StrLess(p[1], q[1]) ELSE StrLess(q[1], p[1])

\* the first element visited by `for ... in perms`
FirstVisited(seed, perms) ==
    CHOOSE p \in perms : \A q \in perms \ {p} : VisitedBefore(seed, p, q)

(***************************************************************************)
(* PermutationDatabase (watchtower.py:283-347)                             *)
(***************************************************************************)
\* DomainFuzzer(target).generate_all() for every target of the config
TargetPermutations ==
    [target \in Range(get_all_targets) |-> generate_all(Strip(Lower(target)))]

\* the labels generated for a target
TargetLabels ==
    [target \in Range(get_all_targets) |-> {p[1] : p \in TargetPermutations[target]}]

\* the last target, in the order of get_all_targets(), that generates the
\* label: an index in which a later target overwrites the entry
LastTargetOf(domain) ==
    get_all_targets[CHOOSE i \in 1..Len(get_all_targets) :
        /\ domain \in TargetLabels[get_all_targets[i]]
        /\ \A j \in (i + 1)..Len(get_all_targets) :
              domain \notin TargetLabels[get_all_targets[j]]]

\* the first target, in the order of get_all_targets(), that generates the
\* label: `if domain not in self.permutations` keeps the first entry stored
FirstTargetOf(domain) ==
    get_all_targets[CHOOSE i \in 1..Len(get_all_targets) :
        /\ domain \in TargetLabels[get_all_targets[i]]
        /\ \A j \in 1..(i - 1) : domain \notin TargetLabels[get_all_targets[j]]]

\* PermutationDatabase._build_database, the set of each target being visited
\* in the order of `seed`: a label is stored for the first target that
\* generates it, with the fuzzer type of its first pair visited
_build_database(seed) ==
    [domain \in UNION {TargetLabels[t] : t \in Range(get_all_targets)} |->
        LET target == FirstTargetOf(domain)
        IN  <<target,
              FirstVisited(seed, {p \in TargetPermutations[target] : p[1] = domain})[2]>>]

\* position of a target in get_all_targets()
TargetIndex(target) ==
    CHOOSE i \in 1..Len(get_all_targets) :
        /\ get_all_targets[i] = target
        /\ \A j \in 1..(i - 1) : get_all_targets[j] # target

\* key k1 was inserted into the dict before key k2: dict iteration follows
\* insertion order, that is target order and then set order
InsertedBefore(seed, permutations, k1, k2) ==
    LET t1 == TargetIndex(permutations[k1][1])
        t2 == TargetIndex(permutations[k2][1])
    IN  \/ t1 < t2
        \/ /\ t1 = t2
           /\ VisitedBefore(seed, <<k1, permutations[k1][2]>>,
                                  <<k2, permutations[k2][2]>>)

\* the substrings of s
Substrings(s) == {SubSeq(s, i, j) : i \in 1..Len(s), j \in 1..Len(s)}

\* the loop `for i, part in enumerate(parts)` of lookup, from index i on
RECURSIVE LookupParts(_, _, _)
LookupParts(permutations, parts, i) ==
    IF i >= Len(parts) THEN None
    ELSE IF parts[i + 1] \in DOMAIN permutations THEN permutations[parts[i + 1]]
    ELSE IF /\ i < Len(parts) - 1
            /\ (parts[i + 1] \o parts[i + 2]) \in DOMAIN permutations
         THEN permutations[parts[i + 1] \o parts[i + 2]]
    ELSE LookupParts(permutations, parts, i + 1)

\* the loop `for perm in self.permutations: if perm in domain_without_tld`:
\* the first key, in dict order, that is a substring
LookupSubstring(seed, permutations, parts) ==
    IF Len(parts) >= 2
    THEN LET domain_without_tld == Join(SubSeq(parts, 1, Len(parts) - 1))
             hits == Substrings(domain_without_tld) \cap DOMAIN permutations
         IN  IF hits = {} THEN None
             ELSE permutations[CHOOSE k \in hits : \A k2 \in hits \ {k} :
                                   InsertedBefore(seed, permutations, k, k2)]
    ELSE None

\* lookup without the `combined` check of its loop
lookup_without_combined(seed, permutations, domain) ==
    LET parts == Split(Lower(domain))
        hits == {i \in 1..Len(parts) : parts[i] \in DOMAIN permutations}
    IN  IF hits # {}
        THEN permutations[parts[CHOOSE i \in hits : \A j \in hits : i <= j]]
        ELSE LookupSubstring(seed, permutations, parts)

\* PermutationDatabase.lookup
lookup(seed, permutations, domain) ==
    LET parts == Split(Lower(domain))
        found == LookupParts(permutations, parts, 0)
    IN  IF found # None THEN found
        ELSE LookupSubstring(seed, permutations, parts)

\* the loop of contains_target_keyword over get_all_targets(); the None of
\* the source is the empty str here, which `if target:` treats alike
RECURSIVE FirstTargetIn(_, _)
FirstTargetIn(targets, domain_lower) ==
    IF targets = <<>> THEN ""
    ELSE IF Contains(domain_lower, Head(targets)) THEN Head(targets)
    ELSE FirstTargetIn(Tail(targets), domain_lower)

\* contains_target_keyword looping over the targets in reversed order
contains_target_keyword_reversed(domain) ==
    FirstTargetIn([i \in 1..Len(get_all_targets) |->
                      get_all_targets[Len(get_all_targets) + 1 - i]], Lower(domain))

\* PermutationDatabase.contains_target_keyword
contains_target_keyword(domain) == FirstTargetIn(get_all_targets, Lower(domain))

(***************************************************************************)
(* Risk scoring and domain analysis of the CLI monitor (class Watchtower,  *)
(* watchtower.py:513-606) and of the dashboard service (class              *)
(* WatchtowerService, watchtower_api.py:154-244).                          *)
(***************************************************************************)
\* _is_whitelisted comparing the domain as given, without .lower()
_is_whitelisted_as_given(domain) ==
    \E i \in 1..Len(whitelist) :
        \/ domain = whitelist[i]
        \/ EndsWith(domain, "." \o whitelist[i])

\* Watchtower._is_whitelisted, WatchtowerService._is_whitelisted
_is_whitelisted(domain) ==
    LET domain_lower == Lower(domain)
    IN  \E i \in 1..Len(whitelist) :
            \/ domain_lower = whitelist[i]
            \/ EndsWith(domain_lower, "." \o whitelist[i])

security_words == << "secure", "verify", "login", "update", "confirm", "auth" >>

\* the first element of a list among those at the positions `hits`, as a
\* one-element list, or the empty list: `for x in items: if test(x): ...; break`
FirstMatch(items, hits) ==
    IF hits = {} THEN <<>>
    ELSE <<items[CHOOSE i \in hits : \A j \in hits : i <= j]>>

\* re.search(r'\d', s)
HasDigit(s) == \E i \in Positions(s) : Contains("0123456789", At(s, i))

\* `score += points; factors.append(factor)` when the row is hit
AddPoints(s, hit, points, factor) ==
    IF hit THEN [score |-> s.score + points, factors |-> Append(s.factors, factor)]
    ELSE s

\* the base score of the fuzzer type and its factor
BaseScore(fuzzer_type) ==
    IF fuzzer_type \in {"homoglyph", "bitsquatting"}
    THEN [score |-> 40, factors |-> <<"High-risk fuzzer: " \o fuzzer_type>>]
    ELSE IF fuzzer_type \in {"addition", "hyphenation"}
    THEN [score |-> 30, factors |-> <<"Medium-risk fuzzer: " \o fuzzer_type>>]
    ELSE [score |-> 25, factors |-> <<"Typosquatting: " \o fuzzer_type>>]

\* the element of a FirstMatch result, "" when there is none
Matched(match) == IF match = <<>> THEN "" ELSE match[1]

\* the score before `min(score, 100)` and the factors of _calculate_risk;
\* digits tells whether the "Contains numbers" step is part of the method
RiskSteps(domain, fuzzer_type, digits) ==
    LET domain_lower == Lower(domain)
        tld == FirstMatch(suspicious_tlds,
                          {i \in 1..Len(suspicious_tlds) :
                              EndsWith(domain_lower, suspicious_tlds[i])})
        word == FirstMatch(security_words,
                           {i \in 1..Len(security_words) :
                               Contains(domain_lower, security_words[i])})
        s1 == AddPoints(BaseScore(fuzzer_type), tld # <<>>, 25,
                        "Suspicious TLD: " \o Matched(tld))
        s2 == AddPoints(s1, Count(domain_lower, "-") >= 2, 15,
                        "Multiple hyphens in domain")
        s3 == AddPoints(s2, Len(domain_lower) > 30, 10, "Unusually long domain")
        s4 == AddPoints(s3, word # <<>>, 15, "Security keyword: " \o Matched(word))
    IN  AddPoints(s4, digits /\ HasDigit(domain_lower), 5, "Contains numbers")

\* return min(score, 100), factors
Clamped(s) == <<Min(s.score, 100), s.factors>>

\* Watchtower._calculate_risk returning score instead of min(score, 100)
Watchtower_calculate_risk_unclamped(domain, target, fuzzer_type) ==
    LET s == RiskSteps(domain, fuzzer_type, TRUE)
    IN  <<s.score, s.factors>>

\* Watchtower._calculate_risk
Watchtower_calculate_risk(domain, target, fuzzer_type) ==
    Clamped(RiskSteps(domain, fuzzer_type, TRUE))

\* WatchtowerService._calculate_risk
Service_calculate_risk(domain, target, fuzzer_type) ==
    Clamped(RiskSteps(domain, fuzzer_type, FALSE))

\* score = score + 20, the bonus without its min
KeywordBonusUnclamped(score) == score + 20

\* score = min(score + 20, 100), the bonus of a keyword match
KeywordBonus(score) == Min(score + 20, 100)

\* cert_data.get('leaf_cert', {}).get('issuer', {}).get('O', '') and
\* cert_data.get('leaf_cert', {}).get('all_domains', [])
Detection(domain, target, fuzzer_type, score, factors, cert_data) ==
    [domain |-> domain, target |-> target, fuzzer_type |-> fuzzer_type,
     risk_score |-> score, risk_factors |-> factors,
     certificate_issuer |-> cert_data.issuer, all_domains |-> cert_data.all_domains]

\* the Detection of the keyword branch: the bonus is added to the score and
\* the keyword factor is put in front of the factors
KeywordDetection(domain, target, r, cert_data) ==
    Detection(domain, target, "keyword-match", KeywordBonus(r[1]),
              <<"Contains target keyword: " \o target>> \o r[2], cert_data)

\* the Detection of the lookup branch
FuzzerDetection(domain, result, r, cert_data) ==
    Detection(domain, result[1], result[2], r[1], r[2], cert_data)

\* Watchtower._analyze_domain after the whitelist check, target being the
\* result of contains_target_keyword and result that of lookup.  In the
\* keyword branch the local fuzzer_type is never bound, so
\* `'fuzzer_type' in dir()` is false and the Detection carries
\* 'keyword-match'.
Watchtower_match(domain, target, result, cert_data) ==
    IF target # ""
    THEN KeywordDetection(domain, target,
                          Watchtower_calculate_risk(domain, target, "keyword-match"),
                          cert_data)
    ELSE IF result = None THEN None
    ELSE FuzzerDetection(domain, result,
                         Watchtower_calculate_risk(domain, result[1], result[2]),
                         cert_data)

\* Watchtower._analyze_domain
Watchtower_analyze_domain(seed, permutations, domain, cert_data) ==
    IF _is_whitelisted(domain) THEN None
    ELSE Watchtower_match(domain, contains_target_keyword(domain),
                          lookup(seed, permutations, domain), cert_data)

\* WatchtowerService._analyze_domain after the whitelist check, keyword being
\* the result of contains_target_keyword and result that of lookup
Service_match(domain, keyword, result, cert_data) ==
    IF keyword # ""
    THEN KeywordDetection(domain, keyword,
                          Service_calculate_risk(domain, keyword, "keyword-match"),
                          cert_data)
    ELSE IF result = None THEN None
    ELSE FuzzerDetection(domain, result,
                         Service_calculate_risk(domain, result[1], result[2]),
                         cert_data)

\* WatchtowerService._analyze_domain
Service_analyze_domain(seed, permutations, domain, cert_data) ==
    IF _is_whitelisted(domain) THEN None
    ELSE Service_match(domain, contains_target_keyword(domain),
                       lookup(seed, permutations, domain), cert_data)

(***************************************************************************)
(* Statistics: LiveStats (watchtower.py:374-406) and WatchtowerStats       *)
(* (watchtower_api.py:291-318).  A defaultdict(int) is a function whose    *)
(* domain is the set of keys touched so far.                               *)
(***************************************************************************)
RecentCap == 100

HighRiskScore == 70

\* LiveStats.__init__ / WatchtowerStats.__init__
NewStats ==
    [certs_processed |-> 0, domains_checked |-> 0, detections |-> 0,
     high_risk |-> 0, by_target |-> <<>>, by_fuzzer |-> <<>>,
     recent_detections |-> <<>>]

\* d[key] += 1 on a defaultdict(int)
Incr(d, key) ==
    IF key \in DOMAIN d THEN [d EXCEPT ![key] = @ + 1] ELSE d @@ (key :> 1)

record_cert(s) == [s EXCEPT !.certs_processed = @ + 1]

record_domain(s) == [s EXCEPT !.domains_checked = @ + 1]

\* LiveStats.record_detection
LiveStats_record_detection(s, detection) ==
    LET recent == Append(s.recent_detections, detection)
    IN  [s EXCEPT !.detections = @ + 1,
                  !.high_risk = IF detection.risk_score >= HighRiskScore
                                THEN @ + 1 ELSE @,
                  !.by_target = Incr(@, detection.target),
                  !.by_fuzzer = Incr(@, detection.fuzzer_type),
                  !.recent_detections = IF Len(recent) > RecentCap
                                        THEN Tail(recent) ELSE recent]

\* record_detection counting every Detection as high risk
WatchtowerStats_record_detection_all_high(s, detection) ==
    [s EXCEPT !.detections = @ + 1,
              !.high_risk = @ + 1,
              !.by_target = Incr(@, detection.target),
              !.by_fuzzer = Incr(@, detection.fuzzer_type)]

\* WatchtowerStats.record_detection
WatchtowerStats_record_detection(s, detection) ==
    [s EXCEPT !.detections = @ + 1,
              !.high_risk = IF detection.risk_score >= HighRiskScore
                            THEN @ + 1 ELSE @,
              !.by_target = Incr(@, detection.target),
              !.by_fuzzer = Incr(@, detection.fuzzer_type)]

(***************************************************************************)
(* The persisted detection log and the alerts.                             *)
(***************************************************************************)
\* '; '.join(factors)
RECURSIVE JoinFactors(_)
JoinFactors(factors) ==
    IF factors = <<>> THEN ""
    ELSE IF Len(factors) = 1 THEN factors[1]
    ELSE factors[1] \o "; " \o JoinFactors(Tail(factors))

\* the row written by _save_detection (the timestamp column is left out)
CsvRow(detection) ==
    [domain |-> detection.domain, target |-> detection.target,
     fuzzer_type |-> detection.fuzzer_type, risk_score |-> detection.risk_score,
     risk_factors |-> JoinFactors(detection.risk_factors),
     issuer |-> detection.certificate_issuer]

\* Watchtower._save_detection / WatchtowerService._save_detection
_save_detection(file, detection) == Append(file, CsvRow(detection))

(***************************************************************************)
(* Certstream messages.  all_domains is a JSON list; an element that is    *)
(* not a str (null) is written JsonNull, on which domain.startswith        *)
(* raises AttributeError.                                                  *)
(***************************************************************************)
JsonNull == "<null>"

\* `if domain.startswith('*.'): domain = domain[2:]`
StripWildcard(domain) == IF StartsWith(domain, "*.") THEN Suffix(domain, 2) ELSE domain

\* `if detection:` of Watchtower._certstream_callback: record, append, save
\* and print the Detection
CliRecord(st, detection) ==
    IF detection = None THEN st
    ELSE [st EXCEPT !.stats = LiveStats_record_detection(@, detection),
                    !.detections = Append(@, detection),
                    !.output = _save_detection(@, detection),
                    !.emitted = Append(@, [event |-> "alert", data |-> detection])]

\* one pass of the body of `for domain in all_domains` of
\* Watchtower._certstream_callback, for element i; st.raised tells that an
\* exception left the loop
CliSan(st, seed, permutations, cert_data, i) ==
    IF cert_data.all_domains[i] = JsonNull
    THEN [st EXCEPT !.stats = record_domain(@), !.raised = TRUE]
    ELSE CliRecord([st EXCEPT !.stats = record_domain(@)],
                   Watchtower_analyze_domain(
                       seed, permutations,
                       StripWildcard(cert_data.all_domains[i]), cert_data))

\* the passes of the loop for elements i..j, in order
RECURSIVE CliSanLoop(_, _, _, _, _, _)
CliSanLoop(st, seed, permutations, cert_data, i, j) ==
    IF st.raised \/ i > j THEN st
    ELSE IF i = j THEN CliSan(st, seed, permutations, cert_data, i)
    ELSE CliSanLoop(
             CliSanLoop(st, seed, permutations, cert_data, i, (i + j) \div 2),
             seed, permutations, cert_data, (i + j) \div 2 + 1, j)

\* `if detection:` of WatchtowerService._on_cert_event: append and record
\* under the lock, save and emit the Detection
SvcRecord(st, detection) ==
    IF detection = None THEN st
    ELSE [st EXCEPT !.detections = Append(@, detection),
                    !.stats = WatchtowerStats_record_detection(@, detection),
                    !.output = _save_detection(@, detection),
                    !.emitted = Append(@, [event |-> "new_detection",
                                           data |-> detection])]

\* one pass of the body of `for domain in all_domains` of
\* WatchtowerService._on_cert_event, for element i
SvcSan(st, seed, permutations, cert_data, i) ==
    IF cert_data.all_domains[i] = JsonNull
    THEN [st EXCEPT !.stats = record_domain(@), !.raised = TRUE]
    ELSE SvcRecord([st EXCEPT !.stats = record_domain(@)],
                   Service_analyze_domain(
                       seed, permutations,
                       StripWildcard(cert_data.all_domains[i]), cert_data))

\* the passes of the loop for elements i..j, in order
RECURSIVE SvcSanLoop(_, _, _, _, _, _)
SvcSanLoop(st, seed, permutations, cert_data, i, j) ==
    IF st.raised \/ i > j THEN st
    ELSE IF i = j THEN SvcSan(st, seed, permutations, cert_data, i)
    ELSE SvcSanLoop(
             SvcSanLoop(st, seed, permutations, cert_data, i, (i + j) \div 2),
             seed, permutations, cert_data, (i + j) \div 2 + 1, j)

(***************************************************************************)
(* Specification SpecFuzz: one DomainFuzzer object, constructed from any   *)
(* raw label of RawLabels, on which generate_all() is called repeatedly.   *)
(***************************************************************************)
BrandAlphabet == {"a", "n", "r", "1", "-", "B", " "}

\* every str over BrandAlphabet of length at most n
RECURSIVE Strings(_)
Strings(n) ==
    IF n = 0 THEN {""}
    ELSE Strings(n - 1) \cup {s \o c : s \in Strings(n - 1), c \in BrandAlphabet}

RawLabels == Strings(MaxBrandLen) \cup {"kbank", "scb", "gsb", " KBank "}

FuzzInit ==
    /\ \E raw \in RawLabels :
          /\ call = [fn |-> "DomainFuzzer", domain |-> raw]
          /\ fuzzer = NewFuzzer(raw)
    /\ fuzzCalls = 0
    /\ ret = None
    /\ prog = "none" /\ hashSeed = 0 /\ is_running = FALSE
    /\ stats = None /\ detections = <<>> /\ output = <<>>
    /\ emitted = <<>> /\ errors = 0
    /\ threads = <<>> /\ sent = 0 /\ wire = None
    /\ _lock = 0 /\ frames = <<>>
    /\ NoAnalyzer

\* fuzzer.generate_all()
GenerateAll ==
    /\ fuzzCalls < MaxGenerateCalls
    /\ fuzzer' = [fuzzer EXCEPT !.permutations = generate_all(fuzzer.domain)]
    /\ fuzzCalls' = fuzzCalls + 1
    /\ ret' = generate_all(fuzzer.domain)
    /\ UNCHANGED <<deep, sync, feed, prog, hashSeed, is_running, stats, detections,
                   output, emitted, errors, call>>

FuzzNext == GenerateAll

SpecFuzz == FuzzInit /\ [][FuzzNext]_vars
(***************************************************************************)
(* Specification Spec: one process, which runs either the CLI monitor      *)
(* (watchtower.py, prog = "cli") or the dashboard service (app.py with     *)
(* watchtower_api.py, prog = "svc").  The object is constructed in Init,   *)
(* its index being the one built under the hash seed of the process.  A behaviour  *)
(* either applies one method to the constructed object (call # None) or    *)
(* runs the monitor on certstream messages (call = None).                  *)
(***************************************************************************)
MaxHashSeed == 1     \* hash seeds 0..MaxHashSeed
MaxCerts == 1        \* certificate_update messages handled per behaviour
MaxSans == 2         \* longest all_domains list of a message
MaxLabels == 3       \* most labels of an fqdn passed to lookup on a small index
MaxThreads == 2      \* most threads of _run_monitor started in a behaviour

HashSeeds == 0..MaxHashSeed

\* PermutationDatabase(config).permutations as built in a process of each hash
\* seed: label -> <<target, fuzzer_type>>
Databases == [seed \in HashSeeds |-> _build_database(seed)]

\* self.db.permutations of the object constructed in this process; it is
\* assigned in __init__ and never written again
db == Databases[hashSeed]

Pending == [pending |-> TRUE]

\* the SANs a message may carry
SanPool == {"*.www.KBank.com", "airpay.kbank-secure-1.xyz", "sb.xyz", JsonNull}

\* every list over S of length at most n
RECURSIVE ListsOver(_, _)
ListsOver(S, n) ==
    IF n = 0 THEN {<<>>}
    ELSE ListsOver(S, n - 1) \cup
         {Append(l, x) : l \in {m \in ListsOver(S, n - 1) : Len(m) = n - 1}, x \in S}

Issuers == {"R3"}

Messages ==
    {[message_type |-> "heartbeat"]} \cup
    {[message_type |-> "certificate_update",
      data |-> [issuer |-> o, all_domains |-> l]] :
        o \in Issuers, l \in ListsOver(SanPool, MaxSans)}

\* the fqdns on which single methods are applied
FqdnPool ==
    {"kbank.com", "www.kbank.com", "*.kbank.com", "KBANK.COM", "scb.co.th",
     "linepay.line.me", "google.com", "login.gsb.or.th",
     "notkbank.com", "kbank.com.evil.xyz", "kbank-secure.xyz", "airpay-kbank.com",
     "baac-airpay.top", "KBank-Secure.XYZ", "scb1.com", "my-kbank.secure-login.com",
     "kbank-secure-login-verify-account.online", "secure-kbank-login-1.xyz",
     "kbamk.com", "sb.xyz", "sb.com", "kbnak.com", "k-bank.net", "kbannk.com",
     "kban.com", "ibank.top", "kba.mk.kbnak.com", "x-y.s-b.club",
     "lcbank.secure-login-verify-update-1.xyz", "www.kbamk-login.info",
     "randomdomain.com", "example.org", "localhost", ""}

RuleKinds == Range(fuzzers) \cup {"keyword-match"}

\* small dicts for PermutationDatabase.permutations, and fqdns built from
\* labels that hit and miss their keys
SmallEntries ==
    ("a" :> <<"kbank", "omission">>) @@ ("b" :> <<"scb", "omission">>) @@
    ("ab" :> <<"gsb", "addition">>) @@ ("ba" :> <<"baac", "hyphenation">>)

SmallIndexes == {[k \in K |-> SmallEntries[k]] : K \in SUBSET DOMAIN SmallEntries}

SmallLabels == {"a", "b", "ab", "aba", "c"}

SmallFqdns == {Join(l) : l \in ListsOver(SmallLabels, MaxLabels) \ {<<>>}}

UnitCalls ==
    {[fn |-> "_analyze_domain", domain |-> d] : d \in FqdnPool} \cup
    {[fn |-> "_calculate_risk", domain |-> d, fuzzer_type |-> k] :
        d \in FqdnPool, k \in RuleKinds} \cup
    {[fn |-> "lookup", domain |-> d, permutations |-> p] :
        d \in SmallFqdns, p \in SmallIndexes} \cup
    {[fn |-> "_build_database", seed |-> s] : s \in HashSeeds}

Init ==
    /\ prog \in {"cli", "svc"}
    /\ hashSeed \in HashSeeds
    /\ is_running = FALSE
    /\ stats = NewStats
    /\ detections = <<>>
    /\ output = <<>>
    /\ emitted = <<>>
    /\ errors = 0
    /\ call \in {None} \cup UnitCalls
    /\ ret = Pending
    /\ fuzzer = None /\ fuzzCalls = 0
    /\ threads = <<>> /\ sent = 0 /\ wire = None
    /\ _lock = 0 /\ frames = <<>>
    /\ NoAnalyzer

\* Watchtower.start up to the call of certstream.listen_for_events
CliStart ==
    /\ prog = "cli" /\ call = None
    /\ ~is_running
    /\ is_running' = TRUE
    /\ UNCHANGED <<deep, sync, feed, fuzzer, fuzzCalls, prog, hashSeed, stats, detections,
                   output, emitted, errors, call, ret>>

\* Watchtower.stop
CliStop ==
    /\ prog = "cli" /\ call = None
    /\ is_running
    /\ is_running' = FALSE
    /\ UNCHANGED <<deep, sync, feed, fuzzer, fuzzCalls, prog, hashSeed, stats, detections,
                   output, emitted, errors, call, ret>>

\* the state of the object when the try block of the handler is entered
Entered ==
    [stats |-> record_cert(stats), detections |-> detections, output |-> output,
     emitted |-> emitted, raised |-> FALSE]

\* the state in which Watchtower._certstream_callback leaves the object;
\* `except Exception` logs "Error processing cert"
CliLeave(st) ==
    /\ stats' = st.stats
    /\ detections' = st.detections
    /\ output' = st.output
    /\ emitted' = st.emitted
    /\ errors' = IF st.raised THEN errors + 1 ELSE errors

\* Watchtower._certstream_callback(message, context)
CertstreamCallback(message) ==
    /\ prog = "cli" /\ call = None
    /\ is_running
    /\ IF message.message_type # "certificate_update"
       THEN UNCHANGED <<stats, detections, output, emitted, errors>>
       ELSE /\ stats.certs_processed < MaxCerts
            /\ CliLeave(CliSanLoop(Entered, hashSeed, db, message.data, 1,
                                    Len(message.data.all_domains)))
    /\ UNCHANGED <<deep, sync, feed, fuzzer, fuzzCalls, prog, hashSeed, is_running, call, ret>>

\* WatchtowerService.start: a second call while running returns
\* "already_running"; otherwise a new daemon thread runs _run_monitor
SvcStart ==
    /\ prog = "svc" /\ call = None
    /\ IF is_running
       THEN UNCHANGED <<is_running, threads>>
       ELSE /\ Len(threads) < MaxThreads
            /\ is_running' = TRUE
            /\ threads' = Append(threads, "listening")
    /\ UNCHANGED <<deep, sync, sent, wire, fuzzer, fuzzCalls, prog, hashSeed, stats, detections,
                   output, emitted, errors, call, ret>>

\* WatchtowerService.stop: the flag is cleared; the thread of _run_monitor
\* is neither joined nor told to leave listen_for_events
SvcStop ==
    /\ prog = "svc" /\ call = None
    /\ is_running' = FALSE
    /\ UNCHANGED <<deep, sync, feed, fuzzer, fuzzCalls, prog, hashSeed, stats, detections,
                   output, emitted, errors, call, ret>>

\* the threads that are inside certstream.listen_for_events, each holding
\* its own subscription to the aggregator
Listening == {t \in DOMAIN threads : threads[t] = "listening"}

StatsEvery == 100

\* the state in which WatchtowerService._on_cert_event leaves the object:
\* 'stats_update' is emitted after the loop, every StatsEvery certificates
SvcLeave(st) ==
    /\ stats' = st.stats
    /\ detections' = st.detections
    /\ output' = st.output
    /\ emitted' = IF ~st.raised /\ st.stats.certs_processed % StatsEvery = 0
                  THEN Append(st.emitted, [event |-> "stats_update", data |-> st.stats])
                  ELSE st.emitted
    /\ errors' = IF st.raised THEN errors + 1 ELSE errors

\* _on_cert_event without its test of self.is_running
OnCertEvent_ignoring_flag(message) ==
    /\ prog = "svc" /\ call = None
    /\ Listening # {}
    /\ IF message.message_type # "certificate_update"
       THEN UNCHANGED <<stats, detections, output, emitted, errors>>
       ELSE SvcLeave(SvcSanLoop(Entered, hashSeed, db, message.data, 1,
                                Len(message.data.all_domains)))
    /\ UNCHANGED <<deep, sync, threads, fuzzer, fuzzCalls, prog, hashSeed, is_running, call, ret>>

\* WatchtowerService._on_cert_event(message, context), called by a thread
\* that is inside listen_for_events
OnCertEvent(message) ==
    /\ prog = "svc" /\ call = None
    /\ Listening # {}
    /\ IF ~is_running \/ message.message_type # "certificate_update"
       THEN UNCHANGED <<stats, detections, output, emitted, errors>>
       ELSE SvcLeave(SvcSanLoop(Entered, hashSeed, db, message.data, 1,
                                    Len(message.data.all_domains)))
    /\ UNCHANGED <<deep, sync, threads, fuzzer, fuzzCalls, prog, hashSeed, is_running, call, ret>>

\* a thread calls _on_cert_event with a message of the firehose
SvcReceive(message) ==
    /\ stats.certs_processed < MaxCerts
    /\ OnCertEvent(message)
    /\ UNCHANGED <<sent, wire>>

NoCert(domain) == [issuer |-> "", all_domains |-> <<domain>>]

\* self._analyze_domain(domain, cert_data) on the constructed object
ApplyAnalyzeDomain ==
    /\ call # None /\ call.fn = "_analyze_domain" /\ ret = Pending
    /\ ret' = IF prog = "cli"
              THEN Watchtower_analyze_domain(hashSeed, db, call.domain, NoCert(call.domain))
              ELSE Service_analyze_domain(hashSeed, db, call.domain, NoCert(call.domain))
    /\ UNCHANGED <<deep, sync, feed, fuzzer, fuzzCalls, prog, hashSeed, is_running, stats,
                   detections, output, emitted, errors, call>>

\* self._calculate_risk(domain, target, fuzzer_type) on the constructed object
ApplyCalculateRisk ==
    /\ call # None /\ call.fn = "_calculate_risk" /\ ret = Pending
    /\ ret' = IF prog = "cli"
              THEN Watchtower_calculate_risk(call.domain, "kbank", call.fuzzer_type)
              ELSE Service_calculate_risk(call.domain, "kbank", call.fuzzer_type)
    /\ UNCHANGED <<deep, sync, feed, fuzzer, fuzzCalls, prog, hashSeed, is_running, stats,
                   detections, output, emitted, errors, call>>

\* PermutationDatabase.lookup(domain) on a database holding call.permutations
ApplyLookup ==
    /\ call # None /\ call.fn = "lookup" /\ ret = Pending
    /\ ret' = lookup(hashSeed, call.permutations, call.domain)
    /\ UNCHANGED <<deep, sync, feed, fuzzer, fuzzCalls, prog, hashSeed, is_running, stats,
                   detections, output, emitted, errors, call>>

\* PermutationDatabase(config): a second build of the index, its sets being
\* visited in the order of call.seed
ApplyBuildDatabase ==
    /\ call # None /\ call.fn = "_build_database" /\ ret = Pending
    /\ ret' = _build_database(call.seed)
    /\ UNCHANGED <<deep, sync, feed, fuzzer, fuzzCalls, prog, hashSeed, is_running, stats,
                   detections, output, emitted, errors, call>>

Next ==
    \/ CliStart
    \/ CliStop
    \/ \E message \in Messages : CertstreamCallback(message)
    \/ SvcStart
    \/ SvcStop
    \/ \E message \in Messages : SvcReceive(message)
    \/ ApplyAnalyzeDomain
    \/ ApplyCalculateRisk
    \/ ApplyLookup
    \/ ApplyBuildDatabase

Spec == Init /\ [][Next]_vars

(***************************************************************************)
(* Specification SpecFeed: the dashboard service and the CertStream        *)
(* aggregator.  Every thread of _run_monitor holds its own subscription;    *)
(* the aggregator sends each message of the firehose to every subscription *)
(* and each subscribed thread calls _on_cert_event with it.                *)
(***************************************************************************)
FeedMessages ==
    {[message_type |-> "heartbeat"]} \cup
    {[message_type |-> "certificate_update",
      data |-> [issuer |-> o, all_domains |-> l]] :
        o \in Issuers, l \in ListsOver(SanPool, 1)}

FeedInit ==
    /\ prog = "svc"
    /\ hashSeed \in HashSeeds
    /\ is_running = FALSE
    /\ stats = NewStats
    /\ detections = <<>>
    /\ output = <<>>
    /\ emitted = <<>>
    /\ errors = 0
    /\ call = None
    /\ ret = Pending
    /\ fuzzer = None /\ fuzzCalls = 0
    /\ threads = <<>> /\ sent = 0 /\ wire = None
    /\ _lock = 0 /\ frames = <<>>
    /\ NoAnalyzer

\* every subscribed thread has called back for the message last sent
Delivered == IF wire = None THEN TRUE ELSE wire.left = 0

\* WatchtowerService._run_monitor, except branch: listen_for_events raised in
\* one thread, which reports 'watchtower_error', clears the flag and ends
MonitorFails(t) ==
    /\ prog = "svc" /\ call = None
    /\ threads[t] = "listening"
    /\ Delivered
    /\ threads' = [threads EXCEPT ![t] = "ended"]
    /\ is_running' = FALSE
    /\ emitted' = Append(emitted, [event |-> "watchtower_error", data |-> "error"])
    /\ UNCHANGED <<deep, sync, sent, wire, fuzzer, fuzzCalls, prog, hashSeed, stats, detections,
                   output, errors, call, ret>>

\* the aggregator sends one message to every subscription: each thread of
\* _run_monitor, inside listen_for_events, will call _on_cert_event with it
Broadcast(message) ==
    /\ prog = "svc" /\ call = None
    /\ Listening # {}
    /\ Delivered
    /\ sent < MaxCerts
    /\ sent' = sent + 1
    /\ wire' = [message |-> message, left |-> Cardinality(Listening), processed |-> 0]
    /\ UNCHANGED <<deep, sync, threads, fuzzer, fuzzCalls, prog, hashSeed, is_running, stats,
                   detections, output, emitted, errors, call, ret>>

\* one of the threads that have yet to deliver the message last sent calls
\* _on_cert_event with it
Deliver ==
    /\ ~Delivered
    /\ OnCertEvent(wire.message)
    /\ sent' = sent
    /\ wire' = [wire EXCEPT !.left = @ - 1,
                            !.processed = IF is_running /\ wire.message.message_type = "certificate_update"
                                          THEN @ + 1 ELSE @]

FeedNext ==
    \/ SvcStart
    \/ SvcStop
    \/ \E t \in DOMAIN threads : MonitorFails(t)
    \/ \E message \in FeedMessages : Broadcast(message)
    \/ Deliver

SpecFeed == FeedInit /\ [][FeedNext]_vars

(***************************************************************************)
(* Specification SpecLoad: either program under certificates that carry    *)
(* many SANs, none of whose Detections is ever consumed by a subscriber.   *)
(***************************************************************************)
LoadSizes == {1, RecentCap, RecentCap + 1}

\* all_domains naming the same fqdn n times
Repeat(domain, n) == [i \in 1..n |-> domain]

LoadMessages ==
    {[message_type |-> "certificate_update",
      data |-> [issuer |-> o, all_domains |-> Repeat(d, n)]] :
        o \in Issuers, d \in SanPool \ {JsonNull}, n \in LoadSizes}

LoadInit ==
    /\ prog \in {"cli", "svc"}
    /\ hashSeed \in HashSeeds
    /\ is_running = FALSE
    /\ stats = NewStats
    /\ detections = <<>>
    /\ output = <<>>
    /\ emitted = <<>>
    /\ errors = 0
    /\ call = None
    /\ ret = Pending
    /\ fuzzer = None /\ fuzzCalls = 0
    /\ threads = <<>> /\ sent = 0 /\ wire = None
    /\ _lock = 0 /\ frames = <<>>
    /\ NoAnalyzer

LoadNext ==
    \/ CliStart
    \/ CliStop
    \/ \E message \in LoadMessages : CertstreamCallback(message)
    \/ SvcStart
    \/ SvcStop
    \/ \E message \in LoadMessages : SvcReceive(message)

SpecLoad == LoadInit /\ [][LoadNext]_vars

(***************************************************************************)
(* Specification SpecLock: the dashboard service at the granularity of the *)
(* statements of _on_cert_event.  The object is constructed in Init, where *)
(* _load_existing_detections reads the detection log a previous process    *)
(* left behind; every thread of _run_monitor then runs the handler, and    *)
(* the threads interleave wherever the handler does not hold self._lock.   *)
(* Here output holds only the rows this process appends to the log.        *)
(***************************************************************************)
\* int(text) succeeds: the cell is a non-empty run of decimal digits
IsDecimal(text) ==
    /\ text # ""
    /\ \A i \in 0..(Len(text) - 1) : At(text, i) \in {"0", "1", "2", "3", "4", "5", "6", "7", "8", "9"}

\* int(text) for a cell on which it succeeds
RECURSIVE int(_)
int(text) ==
    IF text = "" THEN 0
    ELSE 10 * int(Prefix(text, Len(text) - 1)) + (Ord[Suffix(text, Len(text) - 1)] - 48)

\* text.split(sep)
RECURSIVE SplitOn(_, _)
SplitOn(text, sep) ==
    IF \E i \in 0..(Len(text) - Len(sep)) : SubSeq(text, i + 1, i + Len(sep)) = sep
    THEN LET i == CHOOSE i \in 0..(Len(text) - Len(sep)) :
                      /\ SubSeq(text, i + 1, i + Len(sep)) = sep
                      /\ \A j \in 0..(i - 1) : SubSeq(text, j + 1, j + Len(sep)) # sep
         IN  <<Prefix(text, i)>> \o SplitOn(Suffix(text, i + Len(sep)), sep)
    ELSE <<text>>

\* the Detection built from one row of the log; all_domains keeps its default
LoadedDetection(row) ==
    [domain |-> row.domain, target |-> row.target, fuzzer_type |-> row.fuzzer_type,
     risk_score |-> int(row.risk_score), risk_factors |-> SplitOn(row.risk_factors, "; "),
     certificate_issuer |-> row.issuer, all_domains |-> <<>>]

\* the passes of `for row in reader` for rows i.., in order: a row without a
\* domain is skipped, and the exception int() raises ends the loop
RECURSIVE LoadRows(_, _, _)
LoadRows(st, rows, i) ==
    IF i > Len(rows) THEN st
    ELSE IF rows[i].domain = "" THEN LoadRows(st, rows, i + 1)
    ELSE IF ~IsDecimal(rows[i].risk_score) THEN st
    ELSE LoadRows([detections |-> Append(st.detections, LoadedDetection(rows[i])),
                   stats |-> WatchtowerStats_record_detection(
                                 st.stats, LoadedDetection(rows[i]))],
                  rows, i + 1)

\* WatchtowerService._load_existing_detections on the object __init__ built
_load_existing_detections(file) ==
    IF ~file.exists THEN [detections |-> <<>>, stats |-> NewStats]
    ELSE LoadRows([detections |-> <<>>, stats |-> NewStats], file.rows, 1)

LogRow(domain, target, fuzzer_type, risk_score, risk_factors) ==
    [domain |-> domain, target |-> target, fuzzer_type |-> fuzzer_type,
     risk_score |-> risk_score, risk_factors |-> risk_factors, issuer |-> "R3"]

\* the detection logs a previous process may have left behind
PersistedLogs ==
    LET keyword == LogRow("kbank-login.xyz", "kbank", "keyword-match", "85",
                          "Contains target keyword: kbank; Suspicious TLD: .xyz")
        typo == LogRow("sb.xyz", "scb", "omission", "60", "Suspicious TLD: .xyz")
        blank == LogRow("", "", "", "", "")
        damaged == LogRow("kbamk.com", "kbank", "homoglyph", "high", "")
    IN  {[exists |-> FALSE, rows |-> <<>>]} \cup
        {[exists |-> TRUE, rows |-> rows] :
            rows \in {<<>>, <<keyword>>, <<keyword, typo>>, <<blank, typo>>,
                      <<keyword, damaged, typo>>}}

\* the certificates the listener threads handle
LockMessages ==
    {[message_type |-> "heartbeat"]} \cup
    {[message_type |-> "certificate_update",
      data |-> [issuer |-> "R3", all_domains |-> l]] :
        l \in {<<"sb.xyz">>, <<"airpay.kbank-secure-1.xyz", "sb.xyz">>,
               <<"*.www.KBank.com", "sb.xyz">>, <<JsonNull>>}}

\* a thread that is not inside _on_cert_event
IdleFrame == [pc |-> "idle", cert_data |-> NoCert(""), i |-> 0, detection |-> None]

LockInit ==
    /\ prog = "svc"
    /\ hashSeed = 0
    /\ is_running = FALSE
    /\ \E file \in PersistedLogs :
          /\ detections = _load_existing_detections(file).detections
          /\ stats = _load_existing_detections(file).stats
    /\ output = <<>>
    /\ emitted = <<>>
    /\ errors = 0
    /\ call = None
    /\ ret = Pending
    /\ fuzzer = None /\ fuzzCalls = 0
    /\ threads = <<>> /\ sent = 0 /\ wire = None
    /\ _lock = 0 /\ frames = [t \in 1..MaxThreads |-> IdleFrame]
    /\ NoAnalyzer

\* the frame after _analyze_domain returned: on to the lock with a Detection,
\* on to the next pass without one
Handler_Analyzed(frame, detection) ==
    IF detection = None THEN [frame EXCEPT !.i = @ + 1]
    ELSE [frame EXCEPT !.pc = "acquire", !.detection = detection]

\* the frame of thread t becomes f
SetFrame(t, f) == frames' = [frames EXCEPT ![t] = f]

\* _on_cert_event is called in thread t: the tests of is_running and of the
\* message type, record_cert and the reading of all_domains
Handler_Enter(t, message) ==
    /\ threads[t] = "listening" /\ frames[t].pc = "idle"
    /\ stats.certs_processed < MaxCerts + 1
    /\ IF ~is_running \/ message.message_type # "certificate_update"
       THEN UNCHANGED <<stats, frames>>
       ELSE /\ stats' = record_cert(stats)
            /\ SetFrame(t, [pc |-> "loop", cert_data |-> message.data, i |-> 1,
                            detection |-> None])
    /\ UNCHANGED <<deep, feed, _lock, fuzzer, fuzzCalls, prog, hashSeed, is_running,
                   detections, output, emitted, errors, call, ret>>

\* one pass of `for domain in all_domains` up to `if detection:`, or the end
\* of the loop with its 'stats_update'; domain.startswith raising on a SAN
\* that is not a str ends the handler in its except clause
Handler_Domain(t) ==
    /\ frames[t].pc = "loop"
    /\ IF frames[t].i > Len(frames[t].cert_data.all_domains)
       THEN /\ SetFrame(t, IdleFrame)
            /\ emitted' = IF stats.certs_processed % StatsEvery = 0
                          THEN Append(emitted, [event |-> "stats_update", data |-> stats])
                          ELSE emitted
            /\ UNCHANGED <<stats, errors>>
       ELSE /\ stats' = record_domain(stats)
            /\ IF frames[t].cert_data.all_domains[frames[t].i] = JsonNull
               THEN /\ SetFrame(t, IdleFrame)
                    /\ errors' = errors + 1
               ELSE /\ SetFrame(t, Handler_Analyzed(
                                       frames[t],
                                       Service_analyze_domain(
                                           hashSeed, db,
                                           StripWildcard(
                                               frames[t].cert_data.all_domains[frames[t].i]),
                                           frames[t].cert_data)))
                    /\ errors' = errors
            /\ emitted' = emitted
    /\ UNCHANGED <<deep, feed, _lock, fuzzer, fuzzCalls, prog, hashSeed, is_running,
                   detections, output, call, ret>>

\* `with self._lock:` replaced by a block that takes no lock
Handler_Acquire_without_lock(t) ==
    /\ frames[t].pc = "acquire"
    /\ _lock' = _lock
    /\ SetFrame(t, [frames[t] EXCEPT !.pc = "append"])
    /\ UNCHANGED <<deep, feed, fuzzer, fuzzCalls, prog, hashSeed, is_running, stats,
                   detections, output, emitted, errors, call, ret>>

\* `with self._lock:` is entered once no thread holds the lock
Handler_Acquire(t) ==
    /\ frames[t].pc = "acquire"
    /\ _lock = 0
    /\ _lock' = t
    /\ SetFrame(t, [frames[t] EXCEPT !.pc = "append"])
    /\ UNCHANGED <<deep, feed, fuzzer, fuzzCalls, prog, hashSeed, is_running, stats,
                   detections, output, emitted, errors, call, ret>>

\* self.detections.append(detection)
Handler_Append(t) ==
    /\ frames[t].pc = "append"
    /\ detections' = Append(detections, frames[t].detection)
    /\ SetFrame(t, [frames[t] EXCEPT !.pc = "record"])
    /\ UNCHANGED <<deep, feed, _lock, fuzzer, fuzzCalls, prog, hashSeed, is_running, stats,
                   output, emitted, errors, call, ret>>

\* self.stats.record_detection(detection)
Handler_Record(t) ==
    /\ frames[t].pc = "record"
    /\ stats' = WatchtowerStats_record_detection(stats, frames[t].detection)
    /\ SetFrame(t, [frames[t] EXCEPT !.pc = "release"])
    /\ UNCHANGED <<deep, feed, _lock, fuzzer, fuzzCalls, prog, hashSeed, is_running,
                   detections, output, emitted, errors, call, ret>>

\* the end of the `with` block
Handler_Release(t) ==
    /\ frames[t].pc = "release"
    /\ _lock' = 0
    /\ SetFrame(t, [frames[t] EXCEPT !.pc = "save"])
    /\ UNCHANGED <<deep, feed, fuzzer, fuzzCalls, prog, hashSeed, is_running, stats,
                   detections, output, emitted, errors, call, ret>>

\* _save_detection and the 'new_detection' event, then the next pass
Handler_Save(t) ==
    /\ frames[t].pc = "save"
    /\ output' = _save_detection(output, frames[t].detection)
    /\ emitted' = Append(emitted, [event |-> "new_detection",
                                   data |-> frames[t].detection])
    /\ SetFrame(t, [frames[t] EXCEPT !.pc = "loop", !.i = @ + 1, !.detection = None])
    /\ UNCHANGED <<deep, feed, _lock, fuzzer, fuzzCalls, prog, hashSeed, is_running, stats,
                   detections, errors, call, ret>>

LockNext ==
    \/ SvcStart
    \/ SvcStop
    \/ \E t \in DOMAIN threads, message \in LockMessages : Handler_Enter(t, message)
    \/ \E t \in DOMAIN threads : Handler_Domain(t)
    \/ \E t \in DOMAIN threads : Handler_Acquire(t)
    \/ \E t \in DOMAIN threads : Handler_Append(t)
    \/ \E t \in DOMAIN threads : Handler_Record(t)
    \/ \E t \in DOMAIN threads : Handler_Release(t)
    \/ \E t \in DOMAIN threads : Handler_Save(t)

SpecLock == LockInit /\ [][LockNext]_vars

(***************************************************************************)
(* The three-layer analyzer (deep_analyzer.py).  Scores are ints;          *)
(* Layer3Result.confidence is a float with two decimals in the source and  *)
(* is held here in hundredths.                                             *)
(***************************************************************************)
\* Layer1Result()
NewLayer1 ==
    [score |-> 0, factors |-> <<>>, fuzzer_type |-> "", is_registered |-> FALSE,
     dns_a |-> <<>>]

\* DOMAnalysis(), for the fields that the layers read
NewDOMAnalysis ==
    [has_login_form |-> FALSE, has_password_field |-> FALSE, form_count |-> 0,
     form_actions |-> <<>>, thai_keywords_found |-> <<>>]

\* Layer2Result()
NewLayer2 ==
    [score |-> 0, factors |-> <<>>, screenshot_b64 |-> None, dom_analysis |-> None,
     page_accessible |-> FALSE, redirect_chain |-> <<>>]

\* Layer3Result()
NewLayer3 ==
    [score |-> 0, verdict |-> "unknown", confidence |-> 0, reasoning |-> "",
     recommendation |-> "monitor"]

\* DeepAnalysisResult(domain, target_domain, analysis_time)
NewDeepAnalysisResult(domain, target_domain) ==
    [domain |-> domain, target_domain |-> target_domain,
     layer1 |-> NewLayer1, layer2 |-> NewLayer2, layer3 |-> NewLayer3,
     final_score |-> 0, recommendation |-> "monitor"]

\* THAI_PHISHING_KEYWORDS, reduced to some of its ASCII entries, in order
THAI_PHISHING_KEYWORDS == <<"login", "otp", "password", "account", "bank", "kbank">>

SUSPICIOUS_FORM_ACTIONS ==
    <<"google.com/forms", "forms.gle", "bit.ly", "tinyurl",
      "script.google.com", "webhook", "discord.com/api">>

\* s.replace(old, new) for a one-character old
RECURSIVE Replace(_, _, _)
Replace(s, old, new) ==
    IF s = "" THEN ""
    ELSE (IF Prefix(s, 1) = old THEN new ELSE Prefix(s, 1)) \o
         Replace(Suffix(s, 1), old, new)

\* the dict `homoglyphs` of _layer1_bouncer, in insertion order
L1_homoglyphs ==
    <<<<"0", "o">>, <<"1", "l">>, <<"3", "e">>, <<"4", "a">>, <<"5", "s">>, <<"@", "a">>>>

\* `for h, char in homoglyphs.items(): normalized = normalized.replace(h, char)`
\* from entry i on
RECURSIVE Normalized(_, _)
Normalized(s, i) ==
    IF i > Len(L1_homoglyphs) THEN s
    ELSE Normalized(Replace(s, L1_homoglyphs[i][1], L1_homoglyphs[i][2]), i + 1)

\* the list `additions` of _layer1_bouncer
L1_additions ==
    <<"secure", "login", "official", "verify", "update", "account", "thailand", "th">>

\* the list `suspicious_tlds` of _layer1_bouncer
L1_suspicious_tlds ==
    <<".xyz", ".top", ".club", ".online", ".site", ".info",
      ".click", ".link", ".buzz", ".pw", ".tk", ".ml">>

\* `normalized != domain_name and target_name in normalized`
L1_IsHomoglyph(domain_name, target_name) ==
    /\ Normalized(domain_name, 1) # domain_name
    /\ Contains(Normalized(domain_name, 1), target_name)

\* the first addition that is in domain_name and not in target_name
L1_Addition(domain_name, target_name) ==
    FirstMatch(L1_additions,
               {i \in DOMAIN L1_additions :
                   /\ Contains(domain_name, L1_additions[i])
                   /\ ~Contains(target_name, L1_additions[i])})

\* `target_name in domain_name and domain_name != target_name`
L1_HasBrand(domain_name, target_name) ==
    Contains(domain_name, target_name) /\ domain_name # target_name

\* the first suspicious TLD that domain_lower ends with
L1_Tld(domain_lower) ==
    FirstMatch(L1_suspicious_tlds,
               {i \in DOMAIN L1_suspicious_tlds :
                   EndsWith(domain_lower, L1_suspicious_tlds[i])})

\* result.fuzzer_type when the addition does not overwrite a homoglyph
L1_fuzzer_type_first_wins(domain_name, target_name) ==
    IF L1_IsHomoglyph(domain_name, target_name) THEN "homoglyph"
    ELSE IF L1_Addition(domain_name, target_name) # <<>> THEN "addition"
    ELSE IF L1_HasBrand(domain_name, target_name) THEN "keyword-match"
    ELSE ""

\* result.fuzzer_type as the three assignments leave it
L1_fuzzer_type(domain_name, target_name) ==
    IF L1_Addition(domain_name, target_name) # <<>> THEN "addition"
    ELSE IF L1_IsHomoglyph(domain_name, target_name) THEN "homoglyph"
    ELSE IF L1_HasBrand(domain_name, target_name) THEN "keyword-match"
    ELSE ""

\* the factor of a hit of a list, or "" when there is none
FactorOf(text, match, end) == IF match = <<>> THEN "" ELSE text \o match[1] \o end

\* score and factors of _layer1_bouncer, row after row; dns tells whether
\* socket.gethostbyname_ex returned (dns.ok, with the list dns.ips) or raised
\* gaierror / timeout
L1_Steps(domain_lower, domain_name, target_name, dns) ==
    LET s0 == AddPoints([score |-> 0, factors |-> <<>>], dns.ok, 20,
                        "Domain is registered and resolves")
        s1 == AddPoints(s0, L1_IsHomoglyph(domain_name, target_name), 30,
                        "Uses lookalike characters (homoglyph)")
        s2 == AddPoints(s1, L1_Addition(domain_name, target_name) # <<>>, 25,
                        FactorOf("Uses deceptive addition: '",
                                 L1_Addition(domain_name, target_name), "'"))
        s3 == AddPoints(s2, L1_HasBrand(domain_name, target_name), 20,
                        "Contains target brand: '" \o target_name \o "'")
        s4 == AddPoints(s3, L1_Tld(domain_lower) # <<>>, 20,
                        FactorOf("Suspicious TLD: ", L1_Tld(domain_lower), ""))
        s5 == AddPoints(s4, Count(domain_name, "-") >= 2, 10,
                        "Multiple hyphens in domain")
    IN  AddPoints(s5, Len(domain_name) > 25, 10, "Unusually long domain name")

\* the Layer1Result put together
Layer1Of(s, fuzzer_type, dns) ==
    [score |-> s.score, factors |-> s.factors, fuzzer_type |-> fuzzer_type,
     is_registered |-> dns.ok, dns_a |-> dns.ips]

\* DeepDomainAnalyzer._layer1_bouncer(domain, target)
_layer1_bouncer(domain, target, dns) ==
    Layer1Of(L1_Steps(Lower(domain), Split(Lower(domain))[1], Split(Lower(target))[1], dns),
             L1_fuzzer_type(Split(Lower(domain))[1], Split(Lower(target))[1]),
             dns)

\* str(n) for n >= 0
RECURSIVE IntToStr(_)
IntToStr(n) ==
    IF n < 10 THEN At("0123456789", n)
    ELSE IntToStr(n \div 10) \o At("0123456789", n % 10)

\* s[:n], also for an n beyond the end
Sliced(s, n) == Prefix(s, Min(n, Len(s)))

\* s.count(p) for a p that cannot overlap itself
CountOf(s, p) ==
    Cardinality({i \in 0..(Len(s) - Len(p)) : SubSeq(s, i + 1, i + Len(p)) = p})

\* the keywords of THAI_PHISHING_KEYWORDS found in text, in list order
KeywordsIn(text) ==
    LET Found(keyword) == Contains(text, Lower(keyword))
    IN  SelectSeq(THAI_PHISHING_KEYWORDS, Found)

\* `result.score += points; result.factors.append(factor)` when hit
AddL2(result, hit, points, factor) ==
    IF hit THEN [result EXCEPT !.score = @ + points, !.factors = Append(@, factor)]
    ELSE result

\* result.factors.append(factor)
Note(result, factor) == [result EXCEPT !.factors = Append(@, factor)]

(***************************************************************************)
(* The page that the browser renders: its forms with their action and      *)
(* inputs, the visible text of its body, the URL reached and the bytes of  *)
(* its screenshot.  An attribute that is missing is ""; a screenshot of "" *)
(* is page.screenshot raising.                                             *)
(***************************************************************************)
credential_patterns == <<"email", "user", "login", "phone", "mobile", "id", "card">>

\* `await inp.get_attribute('type') or 'text'`
InputType(inp) == IF inp.type = "" THEN "text" ELSE inp.type

\* `any(p in field_text for p in credential_patterns)` and the type test
IsCredentialField(inp) ==
    /\ \E p \in Range(credential_patterns) :
          Contains(Lower(inp.name \o " " \o inp.placeholder), p)
    /\ InputType(inp) \in {"text", "email", "tel"}

\* some input of some form of the page is a password input
HasPasswordInput(page) ==
    \E f \in DOMAIN page.forms : \E i \in DOMAIN page.forms[f].inputs :
        InputType(page.forms[f].inputs[i]) = "password"

\* the actions of the forms that have one, in the order of the forms
RECURSIVE ActionsOf(_)
ActionsOf(forms) ==
    IF forms = <<>> THEN <<>>
    ELSE (IF Head(forms).action # "" THEN <<Head(forms).action>> ELSE <<>>)
         \o ActionsOf(Tail(forms))

FormActions(page) == ActionsOf(page.forms)

\* DeepDomainAnalyzer._analyze_dom(page); thai_keywords_found is
\* list(set(...))[:10] in the source, whose order is not kept here
_analyze_dom(page) ==
    [has_login_form |->
        \/ HasPasswordInput(page)
        \/ \E f \in DOMAIN page.forms : \E i \in DOMAIN page.forms[f].inputs :
              IsCredentialField(page.forms[f].inputs[i]),
     has_password_field |-> HasPasswordInput(page),
     form_count |-> Len(page.forms),
     form_actions |-> FormActions(page),
     thai_keywords_found |-> KeywordsIn(Lower(Sliced(page.text, 5000)))]

\* `for action in form_actions: for suspicious in SUSPICIOUS_FORM_ACTIONS:`
\* from action i on
RECURSIVE L2_FormActions(_, _, _)
L2_FormActions(result, actions, i) ==
    IF i > Len(actions) THEN result
    ELSE L2_FormActions(
             AddL2(result,
                   \E j \in DOMAIN SUSPICIOUS_FORM_ACTIONS :
                       Contains(Lower(actions[i]), SUSPICIOUS_FORM_ACTIONS[j]),
                   20, "Suspicious form target: " \o actions[i]),
             actions, i + 1)

\* "Score based on DOM findings" of _layer2_detective
L2_DomScore(result, dom) ==
    LET s1 == AddL2(result, dom.has_login_form, 25, "Contains login form")
        s2 == AddL2(s1, dom.has_password_field, 20, "Has password input field")
        s3 == AddL2(s2, dom.thai_keywords_found # <<>>, 15, "Thai phishing keywords")
    IN  L2_FormActions(s3, dom.form_actions, 1)

\* `if include_dom:` of _layer2_detective
L2_Dom(result, dom) == L2_DomScore([result EXCEPT !.dom_analysis = dom], dom)

\* base64.b64encode(screenshot).decode('utf-8'), a str where the field
\* holds None before
b64encode(screenshot) == [b64 |-> screenshot]

\* page.url after page.goto(url): page.redirect is where the site redirects
\* to, "" when it does not
FinalUrl(page, url) == IF page.redirect = "" THEN url ELSE page.redirect

\* the try block around page.goto: goto is "ok", "timeout" (PlaywrightTimeout)
\* or "error" (any other exception)
L2_Visit(result, url, include_screenshot, include_dom, goto, page) ==
    IF goto = "timeout" THEN Note(result, "Page load timeout")
    ELSE IF goto = "error" THEN Note(result, "Page load error")
    ELSE LET r1 == [result EXCEPT !.page_accessible = TRUE]
             r2 == IF FinalUrl(page, url) # url
                   THEN [r1 EXCEPT !.redirect_chain = Append(@, FinalUrl(page, url)),
                                   !.factors = Append(@, "Redirects to: " \o FinalUrl(page, url))]
                   ELSE r1
             r3 == IF include_screenshot /\ page.screenshot # ""
                   THEN [r2 EXCEPT !.screenshot_b64 = b64encode(page.screenshot)]
                   ELSE r2
         IN  IF include_dom THEN L2_Dom(r3, _analyze_dom(page)) ELSE r3

\* the outcomes of urllib.request.urlopen and response.read in _layer2_fallback
\*   [kind |-> "response", html]   the page was read
\*   [kind |-> "read_error"]       urlopen returned and read() raised
\*   [kind |-> "http_error", code] urllib.error.HTTPError
\*   [kind |-> "url_error"]        urllib.error.URLError
\*   [kind |-> "error"]            any other Exception
\* "Basic HTML analysis" of _layer2_fallback on html_lower
L2_Html(result, html_lower) ==
    LET s1 == AddL2([result EXCEPT !.page_accessible = TRUE],
                    CountOf(html_lower, "<form") > 0, 15,
                    "Contains " \o IntToStr(CountOf(html_lower, "<form")) \o " form(s)")
        s2 == AddL2(s1, \/ Contains(html_lower, "type=\"password\"")
                        \/ Contains(html_lower, "type='password'"),
                    20, "Has password input field")
        s3 == AddL2(s2, KeywordsIn(html_lower) # <<>>, 15, "Thai keywords")
    IN  [s3 EXCEPT !.dom_analysis =
            [has_login_form |->
                /\ CountOf(html_lower, "<form") > 0
                /\ Contains(html_lower, "password") \/ Contains(html_lower, "login"),
             has_password_field |-> Contains(html_lower, "password"),
             form_count |-> CountOf(html_lower, "<form"),
             form_actions |-> <<>>,
             thai_keywords_found |-> KeywordsIn(html_lower)]]

\* DeepDomainAnalyzer._layer2_fallback(domain, result), given the outcome of
\* the GET
_layer2_fallback(domain, result, get) ==
    IF get.kind = "response" THEN L2_Html(result, Lower(Sliced(get.html, 50000)))
    ELSE IF get.kind = "read_error"
    THEN Note([result EXCEPT !.page_accessible = TRUE], "Fallback analysis error")
    ELSE IF get.kind = "http_error" THEN Note(result, "HTTP error: " \o IntToStr(get.code))
    ELSE IF get.kind = "url_error" THEN Note(result, "URL error")
    ELSE Note(result, "Fallback analysis error")

\* _check_playwright_works answering from the import alone
_check_playwright_works_once == HAS_PLAYWRIGHT

\* _check_playwright_works()
_check_playwright_works == IF ~HAS_PLAYWRIGHT THEN FALSE ELSE PLAYWRIGHT_WORKING

\* the exceptions on which _layer2_detective marks the browser broken:
\* BrokenPipeError, and any other whose text holds 'EPIPE' or 'broken pipe'
Crash == {"BrokenPipeError", "EPIPE"}

\* what a call of _layer2_detective leaves: its result, whether it called
\* _mark_playwright_broken and whether it called p.chromium.launch
Left(result, broken, launched) ==
    [result |-> result, broken |-> broken, launched |-> launched]

\* the two handlers of a crashed browser: mark, factor, fallback
L2_Crashed(domain, result, get) ==
    Left(_layer2_fallback(domain,
                          Note(result, "Browser crashed - using fallback analysis"), get),
         TRUE, TRUE)

\* the end of `async with async_playwright() as p`, after the page was
\* visited: leaving the block raises sc.exit or nothing
L2_Exit(domain, visited, sc) ==
    IF sc.exit \in Crash THEN L2_Crashed(domain, visited, sc.get)
    ELSE IF sc.exit = "Exception" THEN Left(Note(visited, "Analysis error"), FALSE, TRUE)
    ELSE Left(visited, FALSE, TRUE)

\* DeepDomainAnalyzer._layer2_detective(domain, include_screenshot,
\* include_dom) under the scenario sc, which tells what each call into the
\* browser and the network does:
\*   sc.launch   p.chromium.launch: "ok" or "fail"
\*   sc.context  browser.new_context / new_page: "ok", or the exception raised
\*   sc.goto     page.goto: "ok", "timeout" or "error"
\*   sc.page     the page rendered
\*   sc.exit     leaving the async_playwright block: "ok", or the exception raised
\*   sc.get      the outcome of the GET of the fallback
_layer2_detective(domain, include_screenshot, include_dom, works, sc) ==
    IF ~works
    THEN Left(_layer2_fallback(
                  domain,
                  Note(NewLayer2, "Browser analysis not available - using limited analysis"),
                  sc.get),
              FALSE, FALSE)
    ELSE IF sc.launch = "fail"
    THEN Left(_layer2_fallback(domain, Note(NewLayer2, "Browser launch failed"), sc.get),
              TRUE, TRUE)
    ELSE IF sc.context \in Crash THEN L2_Crashed(domain, NewLayer2, sc.get)
    ELSE IF sc.context = "Exception"
    THEN Left(Note(NewLayer2, "Analysis error"), FALSE, TRUE)
    ELSE L2_Exit(domain,
                 L2_Visit([NewLayer2 EXCEPT !.redirect_chain = <<"https://" \o domain>>],
                          "https://" \o domain, include_screenshot, include_dom,
                          sc.goto, sc.page),
                 sc)

\* high_risk_indicators counting one for the homoglyph rule
high_risk_indicators_flat(l1, l2) ==
    (IF l1.is_registered THEN 1 ELSE 0)
    + (IF Contains(l1.fuzzer_type, "homoglyph") THEN 1 ELSE 0)
    + (IF \E i \in DOMAIN l1.factors : Contains(l1.factors[i], "TLD") THEN 1 ELSE 0)
    + (IF l2.page_accessible /\ l2.dom_analysis # None
       THEN (IF l2.dom_analysis.has_login_form THEN 2 ELSE 0)
            + (IF l2.dom_analysis.thai_keywords_found # <<>> THEN 2 ELSE 0)
            + (IF l2.dom_analysis.has_password_field THEN 2 ELSE 0)
       ELSE 0)

\* high_risk_indicators of _layer3_judge
high_risk_indicators(l1, l2) ==
    (IF l1.is_registered THEN 1 ELSE 0)
    + (IF Contains(l1.fuzzer_type, "homoglyph") THEN 2 ELSE 0)
    + (IF \E i \in DOMAIN l1.factors : Contains(l1.factors[i], "TLD") THEN 1 ELSE 0)
    + (IF l2.page_accessible /\ l2.dom_analysis # None
       THEN (IF l2.dom_analysis.has_login_form THEN 2 ELSE 0)
            + (IF l2.dom_analysis.thai_keywords_found # <<>> THEN 2 ELSE 0)
            + (IF l2.dom_analysis.has_password_field THEN 2 ELSE 0)
       ELSE 0)

\* reasoning_parts of _layer3_judge
reasoning_parts(l1, l2) ==
    (IF l1.is_registered THEN <<"Domain is actively registered">> ELSE <<>>)
    \o (IF Contains(l1.fuzzer_type, "homoglyph")
        THEN <<"Uses lookalike characters to deceive users">> ELSE <<>>)
    \o (IF \E i \in DOMAIN l1.factors : Contains(l1.factors[i], "TLD")
        THEN <<"Uses suspicious top-level domain">> ELSE <<>>)
    \o (IF l2.page_accessible /\ l2.dom_analysis # None
        THEN (IF l2.dom_analysis.has_login_form
              THEN <<"Page contains credential-harvesting form">> ELSE <<>>)
             \o (IF l2.dom_analysis.thai_keywords_found # <<>>
                 THEN <<"Contains Thai phishing language patterns">> ELSE <<>>)
             \o (IF l2.dom_analysis.has_password_field
                 THEN <<"Requests password input">> ELSE <<>>)
        ELSE <<>>)

\* "Determine verdict" of _layer3_judge, for n high-risk indicators; the
\* confidence min(0.95, 0.6 + n * 0.08) is held in hundredths
Verdict(n, parts) ==
    [score |-> n * 10,
     verdict |-> IF n >= 4 THEN "phishing" ELSE IF n >= 1 THEN "suspicious" ELSE "unknown",
     confidence |-> IF n >= 4 THEN Min(95, 60 + n * 8)
                    ELSE IF n >= 2 THEN Min(85, 50 + n * 10)
                    ELSE IF n >= 1 THEN 50 ELSE 30,
     reasoning |-> IF parts # <<>>
                   THEN "Analysis indicates: " \o JoinFactors(parts) \o "."
                   ELSE "Insufficient evidence for conclusive determination.",
     recommendation |-> IF n >= 4 THEN "takedown"
                        ELSE IF n >= 2 THEN "investigate" ELSE "monitor"]

\* DeepDomainAnalyzer._layer3_judge(l1, l2)
_layer3_judge(l1, l2) == Verdict(high_risk_indicators(l1, l2), reasoning_parts(l1, l2))

\* _calculate_final_score with the weights of Layer 2 and Layer 3 exchanged
_calculate_final_score_judge_heavy(l1, l2, l3) ==
    Min(100, (3 * l1.score + 3 * l2.score + 4 * l3.score) \div 10)

\* _calculate_final_score without its min(100, ...)
_calculate_final_score_unclamped(l1, l2, l3) ==
    (3 * l1.score + 4 * l2.score + 3 * l3.score) \div 10

\* DeepDomainAnalyzer._calculate_final_score(l1, l2, l3):
\* min(100, int(l1.score * 0.3 + l2.score * 0.4 + l3.score * 0.3)).  The
\* scores are multiples of 5, for which the float sum truncates to the same
\* int as the exact tenths.
_calculate_final_score(l1, l2, l3) ==
    Min(100, (3 * l1.score + 4 * l2.score + 3 * l3.score) \div 10)

\* DeepDomainAnalyzer._get_recommendation(score)
_get_recommendation(score) ==
    IF score >= 80 THEN "takedown"
    ELSE IF score >= 60 THEN "investigate"
    ELSE IF score >= 40 THEN "monitor"
    ELSE "safe"

(***************************************************************************)
(* Specification SpecDeep: one process that has imported deep_analyzer and *)
(* calls DeepDomainAnalyzer.analyze again and again, one call at a time.   *)
(* A call stands at "layer1", "layer2" or "layer3"; between calls pc is    *)
(* "idle" and ret is the DeepAnalysisResult returned last.                 *)
(***************************************************************************)
MaxLaunches == 2     \* most calls of p.chromium.launch in a behaviour

DeepFqdns ==
    {"kbank-secure-0-verify-account.xyz", "kb4nk.xyz", "kbank.com", "example.org",
     "scb-th.top", "KBank-Login.INFO", "kb4nk-login.xyz", "krunqthai.com"}

DeepTargets == {"kbank.com", "SCB.co.th", "krungthai.com"}

\* what socket.gethostbyname_ex(domain) does: it raises gaierror / timeout
\* or returns the addresses
DnsAnswers == {[ok |-> FALSE, ips |-> <<>>], [ok |-> TRUE, ips |-> <<"203.0.113.7">>]}

NoPage == [redirect |-> "", forms |-> <<>>, text |-> "", screenshot |-> "png"]

PasswordInput == [type |-> "password", name |-> "pin", placeholder |-> ""]

UserInput == [type |-> "", name |-> "UserName", placeholder |-> "Email"]

Pages ==
    {NoPage,
     [redirect |-> "", text |-> "KBank Login: OTP", screenshot |-> "",
      forms |-> <<[action |-> "/login", inputs |-> <<UserInput, PasswordInput>>]>>],
     [redirect |-> "https://evil.example/", text |-> "", screenshot |-> "png",
      forms |-> <<[action |-> "", inputs |-> <<UserInput>>]>>],
     [redirect |-> "", text |-> "your account password", screenshot |-> "png",
      forms |-> <<[action |-> "https://forms.gle/a", inputs |-> <<PasswordInput>>],
                  [action |-> "https://Bit.ly/b", inputs |-> <<>>],
                  [action |-> "https://discord.com/api/webhook", inputs |-> <<>>]>>]}

HtmlPool ==
    {"<html>hello</html>",
     "<FORM action=x><input type=\"password\"></FORM>",
     "<form><input name=otp></form><form>",
     "please login"}

Gets ==
    {[kind |-> "response", html |-> h] : h \in HtmlPool} \cup
    {[kind |-> "read_error"], [kind |-> "http_error", code |-> 404],
     [kind |-> "url_error"], [kind |-> "error"]}

NoGet == [kind |-> "none"]

\* a scenario of _layer2_detective; "-" marks a call that is not reached
Scenario(launch, context, goto, page, exit, get) ==
    [launch |-> launch, context |-> context, goto |-> goto, page |-> page,
     exit |-> exit, get |-> get]

\* the scenarios of a call that finds the browser disabled
ScenariosFallback == {Scenario("-", "-", "-", NoPage, "-", g) : g \in Gets}

\* the scenarios of a call that uses the browser
ScenariosBrowser ==
    {Scenario("fail", "-", "-", NoPage, "-", g) : g \in Gets} \cup
    {Scenario("ok", c, "-", NoPage, "-", g) : c \in Crash, g \in Gets} \cup
    {Scenario("ok", "Exception", "-", NoPage, "-", NoGet)} \cup
    {Scenario("ok", "ok", t, NoPage, x, NoGet) :
        t \in {"timeout", "error"}, x \in {"ok", "Exception"}} \cup
    {Scenario("ok", "ok", "ok", p, x, NoGet) : p \in Pages, x \in {"ok", "Exception"}} \cup
    {Scenario("ok", "ok", "ok", p, "BrokenPipeError", g) : p \in Pages, g \in Gets}

DeepInit ==
    /\ HAS_PLAYWRIGHT \in BOOLEAN
    /\ PLAYWRIGHT_WORKING = HAS_PLAYWRIGHT
    /\ launches = 0
    /\ pc = "idle"
    /\ call = None
    /\ ret = Pending
    /\ prog = "deep" /\ hashSeed = 0 /\ is_running = FALSE
    /\ stats = None /\ detections = <<>> /\ output = <<>>
    /\ emitted = <<>> /\ errors = 0
    /\ fuzzer = None /\ fuzzCalls = 0
    /\ threads = <<>> /\ sent = 0 /\ wire = None
    /\ _lock = 0 /\ frames = <<>>

\* what analyze leaves alone
Monitor ==
    <<fuzzer, fuzzCalls, prog, hashSeed, is_running, stats, detections, output,
      emitted, errors, feed, sync>>

\* analyze(domain, target_domain, include_screenshot, include_dom) is called
StartAnalysis(domain, target_domain, include_screenshot, include_dom) ==
    /\ pc = "idle"
    /\ IF _check_playwright_works THEN launches < MaxLaunches ELSE TRUE
    /\ call' = [fn |-> "analyze", domain |-> domain, target_domain |-> target_domain,
                include_screenshot |-> include_screenshot, include_dom |-> include_dom,
                sc |-> Pending]
    /\ ret' = NewDeepAnalysisResult(domain, target_domain)
    /\ pc' = "layer1"
    /\ UNCHANGED <<HAS_PLAYWRIGHT, PLAYWRIGHT_WORKING, launches, Monitor>>

\* "Layer 1: Bouncer" of analyze, the resolver answering dns
Layer1(dns) ==
    /\ pc = "layer1"
    /\ ret' = [ret EXCEPT !.layer1 = _layer1_bouncer(call.domain, call.target_domain, dns)]
    /\ pc' = IF dns.ok /\ (call.include_screenshot \/ call.include_dom)
             THEN "layer2" ELSE "layer3"
    /\ UNCHANGED <<HAS_PLAYWRIGHT, PLAYWRIGHT_WORKING, launches, call, Monitor>>

\* the call of _layer2_detective has left `left`: _mark_playwright_broken
\* clears the flag, which nothing sets again
Layer2Leaves(left) ==
    /\ ret' = [ret EXCEPT !.layer2 = left.result]
    /\ PLAYWRIGHT_WORKING' = IF left.broken THEN FALSE ELSE PLAYWRIGHT_WORKING
    /\ launches' = IF left.launched THEN launches + 1 ELSE launches

\* "Layer 2: Detective" of analyze, under the scenario sc
Layer2(sc) ==
    /\ pc = "layer2"
    /\ sc \in (IF _check_playwright_works THEN ScenariosBrowser ELSE ScenariosFallback)
    /\ Layer2Leaves(_layer2_detective(call.domain, call.include_screenshot,
                                      call.include_dom, _check_playwright_works, sc))
    /\ call' = [call EXCEPT !.sc = sc]
    /\ pc' = "layer3"
    /\ UNCHANGED <<HAS_PLAYWRIGHT, Monitor>>

\* "Calculate final score" of analyze, and the return of the result
Finished(result) ==
    [result EXCEPT
        !.final_score = _calculate_final_score(result.layer1, result.layer2, result.layer3),
        !.recommendation = _get_recommendation(
            _calculate_final_score(result.layer1, result.layer2, result.layer3))]

\* DeepDomainAnalyzer.analyze(domain, target_domain, ...) as a function of
\* what its calls of _layer1_bouncer and _layer2_detective return (layer2
\* is Layer2Result() when Layer 2 is skipped)
analyze(domain, target_domain, layer1, layer2) ==
    Finished([NewDeepAnalysisResult(domain, target_domain) EXCEPT
                 !.layer1 = layer1, !.layer2 = layer2,
                 !.layer3 = _layer3_judge(layer1, layer2)])

\* "Layer 3: Judge" of analyze, the final score, the recommendation, return
Layer3 ==
    /\ pc = "layer3"
    /\ ret' = Finished([ret EXCEPT !.layer3 = _layer3_judge(ret.layer1, ret.layer2)])
    /\ pc' = "idle"
    /\ UNCHANGED <<HAS_PLAYWRIGHT, PLAYWRIGHT_WORKING, launches, call, Monitor>>

DeepNext ==
    \/ \E domain \in DeepFqdns, target_domain \in DeepTargets,
          include_screenshot \in BOOLEAN, include_dom \in BOOLEAN :
          StartAnalysis(domain, target_domain, include_screenshot, include_dom)
    \/ \E dns \in DnsAnswers : Layer1(dns)
    \/ \E sc \in ScenariosBrowser \cup ScenariosFallback : Layer2(sc)
    \/ Layer3

SpecDeep == DeepInit /\ [][DeepNext]_vars

(***************************************************************************)
(* The on-demand scanner (scanner_api.py).                                 *)
(***************************************************************************)
COMMON_TLDS ==
    <<".com", ".net", ".org", ".xyz", ".io", ".co", ".app", ".site", ".online", ".info">>

\* SimpleFuzzer.__init__: self.name and self.tld
SimpleFuzzer(domain) ==
    [domain |-> domain,
     name |-> Split(domain)[1],
     tld |-> IF Len(Split(domain)) > 1 THEN "." \o Join(Tail(Split(domain))) ELSE ".com"]

Entry(domain, kind) == [domain |-> domain, fuzzer |-> kind]

\* s.replace(old, new, 1) for a one-character old
ReplaceFirst(s, old, new) ==
    IF Contains(s, old)
    THEN LET i == CHOOSE i \in 0..(Len(s) - 1) :
                      At(s, i) = old /\ \A j \in 0..(i - 1) : At(s, j) # old
         IN  Prefix(s, i) \o new \o Suffix(s, i + 1)
    ELSE s

\* the dict `homoglyphs` of SimpleFuzzer.generate, in insertion order
SimpleHomoglyphs ==
    <<<<"a", "4">>, <<"e", "3">>, <<"i", "1">>, <<"o", "0">>, <<"s", "5">>, <<"l", "1">>>>

\* the homoglyph entries for the pairs i.. of the dict
RECURSIVE HomoglyphEntries(_, _)
HomoglyphEntries(self, i) ==
    IF i > Len(SimpleHomoglyphs) THEN <<>>
    ELSE (IF Contains(self.name, SimpleHomoglyphs[i][1])
          THEN <<Entry(ReplaceFirst(self.name, SimpleHomoglyphs[i][1],
                                    SimpleHomoglyphs[i][2]) \o self.tld, "homoglyph")>>
          ELSE <<>>) \o HomoglyphEntries(self, i + 1)

\* `if fuzzy:` drops the empty label a one-character name leaves
OmissionEntries(self) ==
    IF Len(self.name) = 1 THEN <<>>
    ELSE [i \in 1..Len(self.name) |->
             Entry(Prefix(self.name, i - 1) \o Suffix(self.name, i) \o self.tld, "omission")]

RepetitionEntries(self) ==
    [i \in 1..Len(self.name) |->
        Entry(Prefix(self.name, i) \o Suffix(self.name, i - 1) \o self.tld, "repetition")]

SimpleAdditions ==
    <<"-secure", "-login", "-official", "-thailand", "-verify", "secure-", "login-",
      "official-">>

AdditionEntries(self) ==
    [i \in 1..Len(SimpleAdditions) |->
        Entry(IF StartsWith(SimpleAdditions[i], "-")
              THEN self.name \o SimpleAdditions[i] \o self.tld
              ELSE SimpleAdditions[i] \o self.name \o self.tld, "addition")]

\* the entries for the TLDs i.. of COMMON_TLDS
RECURSIVE TldSwapEntries(_, _)
TldSwapEntries(self, i) ==
    IF i > Len(COMMON_TLDS) THEN <<>>
    ELSE (IF COMMON_TLDS[i] # self.tld
          THEN <<Entry(self.name \o COMMON_TLDS[i], "tld-swap")>>
          ELSE <<>>) \o TldSwapEntries(self, i + 1)

HyphenationEntries(self) ==
    IF ~Contains(self.name, "-") /\ Len(self.name) > 3
    THEN <<Entry(Prefix(self.name, Len(self.name) \div 2) \o "-" \o
                 Suffix(self.name, Len(self.name) \div 2) \o self.tld, "hyphenation")>>
    ELSE <<>>

\* "Remove duplicates": the entries i.. whose domain no earlier entry has
RECURSIVE Unique(_, _)
Unique(results, i) ==
    IF i > Len(results) THEN <<>>
    ELSE (IF \E j \in 1..(i - 1) : results[j].domain = results[i].domain
          THEN <<>> ELSE <<results[i]>>) \o Unique(results, i + 1)

\* SimpleFuzzer.generate
SimpleFuzzer_generate(self) ==
    Unique(<<Entry(self.domain, "original")>> \o HomoglyphEntries(self, 1) \o
           OmissionEntries(self) \o RepetitionEntries(self) \o AdditionEntries(self) \o
           TldSwapEntries(self, 1) \o HyphenationEntries(self), 1)

\* resolve_domain(domain): gethostbyname_ex answers, or raises gaierror or
\* socket.timeout, which leaves the domain unregistered
resolve_domain(domain, answered) ==
    [domain |-> domain, dns_a |-> IF answered THEN <<"203.0.113.7">> ELSE <<>>,
     dns_mx |-> <<>>, is_registered |-> answered]

Scanner_suspicious_tlds ==
    <<".xyz", ".top", ".loan", ".click", ".icu", ".site", ".online", ".pw", ".tk">>

phishing_keywords ==
    <<"secure", "login", "verify", "update", "account", "official", "bank">>

\* the first keyword that is in the domain and not in the target, if any
FirstKeyword(domain, target_domain) ==
    {i \in 1..Len(phishing_keywords) :
        /\ Contains(Lower(domain), phishing_keywords[i])
        /\ ~Contains(Lower(target_domain), phishing_keywords[i])
        /\ \A j \in 1..(i - 1) :
              ~(Contains(Lower(domain), phishing_keywords[j]) /\
                ~Contains(Lower(target_domain), phishing_keywords[j]))}

\* the rows of calculate_risk that apply, as <<points, factor>>, in order
ScannerSteps(domain, is_registered, kind, target_domain) ==
    (IF is_registered THEN <<<<30, "Domain is registered">>>> ELSE <<>>) \o
    (IF kind = "homoglyph" THEN <<<<25, "Uses lookalike characters">>>>
     ELSE IF kind = "addition" THEN <<<<20, "Uses deceptive addition pattern">>>>
     ELSE IF kind = "typosquatting" THEN <<<<20, "Typosquatting attempt">>>>
     ELSE IF kind = "tld-swap" THEN <<<<15, "Different TLD">>>>
     ELSE <<>>) \o
    (IF \E i \in 1..Len(Scanner_suspicious_tlds) : EndsWith(domain, Scanner_suspicious_tlds[i])
     THEN <<<<15, "Uses suspicious TLD">>>> ELSE <<>>) \o
    [i \in 1..Cardinality(FirstKeyword(domain, target_domain)) |->
        <<10, "Contains phishing keyword: " \o
              phishing_keywords[CHOOSE k \in FirstKeyword(domain, target_domain) : TRUE]>>]

RECURSIVE SumPoints(_)
SumPoints(steps) == IF steps = <<>> THEN 0 ELSE steps[1][1] + SumPoints(Tail(steps))

\* calculate_risk(domain_info, target_domain), on the steps that apply
WithRisk(domain_info, steps) ==
    [domain |-> domain_info.domain, dns_a |-> domain_info.dns_a,
     dns_mx |-> domain_info.dns_mx, is_registered |-> domain_info.is_registered,
     fuzzer |-> domain_info.fuzzer,
     risk_score |-> Min(SumPoints(steps), 100),
     risk_factors |-> [i \in 1..Len(steps) |-> steps[i][2]]]

\* calculate_risk(domain_info, target_domain)
Scanner_calculate_risk(domain_info, target_domain) ==
    WithRisk(domain_info,
           ScannerSteps(domain_info.domain, domain_info.is_registered,
                        domain_info.fuzzer, target_domain))

\* results.sort(key=risk_score, reverse=True) with the order reversed again
RECURSIVE sort_ascending(_)
sort_ascending(results) ==
    IF results = <<>> THEN <<>>
    ELSE LET i == CHOOSE i \in 1..Len(results) :
                      /\ \A j \in 1..Len(results) :
                            results[j].risk_score >= results[i].risk_score
                      /\ \A j \in 1..(i - 1) :
                            results[j].risk_score > results[i].risk_score
         IN  <<results[i]>> \o
             sort_ascending(SubSeq(results, 1, i - 1) \o SubSeq(results, i + 1, Len(results)))

\* results.sort(key=lambda x: x['risk_score'], reverse=True): stable, the
\* first of the results with the highest score comes first
RECURSIVE sort_by_risk_score(_)
sort_by_risk_score(results) ==
    IF results = <<>> THEN <<>>
    ELSE LET i == CHOOSE i \in 1..Len(results) :
                      /\ \A j \in 1..Len(results) :
                            results[j].risk_score <= results[i].risk_score
                      /\ \A j \in 1..(i - 1) :
                            results[j].risk_score < results[i].risk_score
         IN  <<results[i]>> \o
             sort_by_risk_score(SubSeq(results, 1, i - 1) \o
                                SubSeq(results, i + 1, Len(results)))

\* jsonify({'error': ...}), status
ErrorResponse(status, error) == [status |-> status, error |-> error]

\* the request carries no JSON body, or one without 'domain'
NoDomain(data) == data = None \/ "domain" \notin DOMAIN data

\* "Remove protocol if present", then the part before the first '/'
Hostname(target_domain) ==
    SplitOn(IF Contains(target_domain, "://")
            THEN SplitOn(target_domain, "://")[2] ELSE target_domain, "/")[1]

\* the results in the order in which as_completed yields the futures:
\* order[k] is the permutation whose future completes k-th
Completed(permutations, order, answered, target_domain) ==
    [k \in 1..Len(permutations) |->
        Scanner_calculate_risk(
            resolve_domain(permutations[order[k]].domain, answered[order[k]]) @@
                [fuzzer |-> permutations[order[k]].fuzzer],
            target_domain)]

\* the summary scan_domain returns
Summary_of(target_domain, results) ==
    [status |-> 200, target |-> target_domain,
     total_permutations |-> Len(results),
     registered_count |-> Cardinality({i \in 1..Len(results) : results[i].is_registered}),
     high_risk_count |-> Cardinality({i \in 1..Len(results) :
                                         results[i].risk_score >= HighRiskScore}),
     results |-> results]

\* scan_domain on a target that was accepted; as_completed raises
\* TimeoutError when a future is not done after 30 s
Scan(target_domain, order, answered, timed_out) ==
    IF timed_out THEN ErrorResponse(500, "TimeoutError")
    ELSE Summary_of(target_domain,
                    sort_by_risk_score(
                        Completed(SimpleFuzzer_generate(SimpleFuzzer(target_domain)),
                                  order, answered, target_domain)))

\* POST /api/scanner/permutations
get_permutations(data) ==
    IF NoDomain(data) THEN ErrorResponse(400, "Domain is required")
    ELSE [status |-> 200, target |-> Lower(Strip(data.domain)),
          count |-> Len(SimpleFuzzer_generate(SimpleFuzzer(Lower(Strip(data.domain))))),
          permutations |-> SimpleFuzzer_generate(SimpleFuzzer(Lower(Strip(data.domain))))]

thai_targets ==
    <<"kbank", "scb", "kasikorn", "bangkok", "krungsri", "ttb", "gsb", "lazada", "shopee",
      "line">>

legit_domains(target) ==
    {target \o ".com", target \o ".co.th", target \o ".th",
     "www." \o target \o ".com", "www." \o target \o ".co.th"}

\* the targets on which the loop of quick_check sets is_suspicious
SuspiciousFor(domain) ==
    {i \in 1..Len(thai_targets) :
        Contains(domain, thai_targets[i]) /\ domain \notin legit_domains(thai_targets[i])}

\* POST /api/scanner/quick-check; matched_target is null when nothing matched
quick_check(data) ==
    IF NoDomain(data) THEN ErrorResponse(400, "Domain is required")
    ELSE [status |-> 200, domain |-> Lower(Strip(data.domain)),
          is_suspicious |-> SuspiciousFor(Lower(Strip(data.domain))) # {},
          matched_target |->
              IF SuspiciousFor(Lower(Strip(data.domain))) = {} THEN JsonNull
              ELSE thai_targets[CHOOSE i \in SuspiciousFor(Lower(Strip(data.domain))) :
                                   \A j \in SuspiciousFor(Lower(Strip(data.domain))) : i <= j]]

(***************************************************************************)
(* Specification SpecScan: a process that serves the scanner blueprint.    *)
(* The handlers keep no state between requests, so a behaviour serves one  *)
(* request: call holds it with what the resolvers and the pool did during  *)
(* it, ret the response.                                                   *)
(***************************************************************************)
MaxShift == 3     \* completion orders: the submission order rotated by 0..MaxShift
MaxStride == 2    \* resolver answers: every stride-th permutation resolves

\* the JSON bodies of the requests
ScanBodies ==
    {None, [name |-> "kbank.com"]} \cup
    {[domain |-> raw] : raw \in {"", "   ", "scb.xyz", "https://TTB.th/login", " line.me ",
                                 "gsb", "k.site"}}

CheckBodies ==
    {None} \cup
    {[domain |-> raw] : raw \in {"kbank-login.xyz", "example.org", " WWW.KBank.com ",
                                 "online-shop.com", "scbline.co.th"}} \cup
    {[domain |-> pre \o thai_targets[i] \o tld] :
        pre \in {"", "www."}, i \in 1..Len(thai_targets), tld \in {".com", ".co.th", ".th", ".net"}}

\* the permutation whose future completes k-th, of n: the submission order
\* rotated by shift and, if reversed, read backwards
CompletionOrder(n, shift, reversed) ==
    [k \in 1..n |-> IF reversed THEN n - ((k - 1 + shift) % n)
                    ELSE ((k - 1 + shift) % n) + 1]

\* permutation i resolves: every stride-th one does, none if stride = 0
Answers(n, stride, phase) == [i \in 1..n |-> stride > 0 /\ i % stride = phase]

ScanInit ==
    /\ prog = "scanner"
    /\ call = None
    /\ ret = Pending
    /\ hashSeed = 0 /\ is_running = FALSE
    /\ stats = None /\ detections = <<>> /\ output = <<>>
    /\ emitted = <<>> /\ errors = 0
    /\ fuzzer = None /\ fuzzCalls = 0
    /\ threads = <<>> /\ sent = 0 /\ wire = None
    /\ _lock = 0 /\ frames = <<>>
    /\ NoAnalyzer

\* the response of scan_domain to the request held in c
scan_domain(c) ==
    IF NoDomain(c.data) THEN ErrorResponse(400, "Domain is required")
    ELSE IF Lower(Strip(c.data.domain)) = "" THEN ErrorResponse(400, "Invalid domain")
    ELSE Scan(Hostname(Lower(Strip(c.data.domain))),
              CompletionOrder(
                  Len(SimpleFuzzer_generate(SimpleFuzzer(Hostname(Lower(Strip(c.data.domain)))))),
                  c.shift, c.reversed),
              Answers(
                  Len(SimpleFuzzer_generate(SimpleFuzzer(Hostname(Lower(Strip(c.data.domain)))))),
                  c.stride, c.phase),
              c.timed_out)

\* POST /api/scanner/scan
ScanDomain(data, shift, reversed, stride, phase, timed_out) ==
    /\ prog = "scanner" /\ call = None
    /\ call' = [fn |-> "scan", data |-> data, shift |-> shift, reversed |-> reversed,
                stride |-> stride, phase |-> phase, timed_out |-> timed_out]
    /\ ret' = scan_domain(call')
    /\ UNCHANGED <<deep, sync, feed, fuzzer, fuzzCalls, prog, hashSeed, is_running, stats,
                   detections, output, emitted, errors>>

GetPermutations(data) ==
    /\ prog = "scanner" /\ call = None
    /\ call' = [fn |-> "permutations", data |-> data]
    /\ ret' = get_permutations(data)
    /\ UNCHANGED <<deep, sync, feed, fuzzer, fuzzCalls, prog, hashSeed, is_running, stats,
                   detections, output, emitted, errors>>

QuickCheck(data) ==
    /\ prog = "scanner" /\ call = None
    /\ call' = [fn |-> "quick_check", data |-> data]
    /\ ret' = quick_check(data)
    /\ UNCHANGED <<deep, sync, feed, fuzzer, fuzzCalls, prog, hashSeed, is_running, stats,
                   detections, output, emitted, errors>>

ScanNext ==
    \/ \E data \in ScanBodies, shift \in 0..MaxShift, reversed \in BOOLEAN,
          stride \in 0..MaxStride, timed_out \in BOOLEAN :
          \E phase \in 0..(IF stride = 0 THEN 0 ELSE stride - 1) :
             ScanDomain(data, shift, reversed, stride, phase, timed_out)
    \/ \E data \in ScanBodies : GetPermutations(data)
    \/ \E data \in CheckBodies : QuickCheck(data)

SpecScan == ScanInit /\ [][ScanNext]_vars
(***************************************************************************)
(* Claims on the Permutation Engine (SpecFuzz).                            *)
(***************************************************************************)

\* C2 -- Self-exclusion: after any number of generate_all() calls on a
\* DomainFuzzer built from the raw label b, no pair of its permutation set
\* has the label b.lower().strip(), and no pair has the empty label.
C2_SelfExclusion ==
    \A p \in fuzzer.permutations \cup (IF fuzzCalls = 0 THEN {} ELSE ret) :
        /\ p[1] # Strip(Lower(call.domain))
        /\ p[1] # ""

\* C2 witness: generate_all() has been called twice on an object whose
\* generators do produce the label itself (transposition of a doubled
\* letter) and the empty label (omission of a one-letter label).
C2_Witness ==
    /\ fuzzCalls >= 2
    /\ fuzzer.permutations # {}
    /\ \/ fuzzer.domain \in _transposition(fuzzer.domain)
       \/ "" \in _omission(fuzzer.domain)
(***************************************************************************)
(* Claims on the monitor and its index (Spec).                             *)
(***************************************************************************)

\* every Detection the state holds: the detections list, the recent list of
\* the statistics, the rows of the output file and the alerts emitted
Recorded ==
    Range(detections) \cup Range(stats.recent_detections) \cup Range(output) \cup
    {emitted[i].data : i \in {j \in 1..Len(emitted) :
                                 emitted[j].event \in {"alert", "new_detection"}}}

\* _analyze_domain has been applied to call.domain and its result is ret
Analyzed == call # None /\ call.fn = "_analyze_domain" /\ ret # Pending

\* _calculate_risk has been applied to call.domain and call.fuzzer_type
Scored == call # None /\ call.fn = "_calculate_risk" /\ ret # Pending

\* lookup has been applied to call.domain on the index call.permutations
LookedUp == call # None /\ call.fn = "lookup" /\ ret # Pending

\* a second index has been built, under the set order call.seed
Built == call # None /\ call.fn = "_build_database" /\ ret # Pending

\* the fqdn, lowercased, equals an allow-list entry or is a DNS descendant
\* of one
Whitelisted(fqdn) ==
    LET low == Lower(fqdn)
    IN  \E w \in Range(whitelist) : low = w \/ EndsWith(low, "." \o w)

\* the brands in configured order: thai_banks, then thai_gov, then
\* thai_ewallet
ConfiguredBrands == thai_banks \o thai_gov \o thai_ewallet

\* positions, in configured order, of the brands contained in the fqdn
BrandsIn(fqdn) ==
    LET low == Lower(fqdn)
    IN  {i \in 1..Len(ConfiguredBrands) : Contains(low, ConfiguredBrands[i])}

\* C1 -- Whitelist dominance: _analyze_domain returns no Detection for a
\* whitelisted fqdn, in the CLI monitor and in the service, and no
\* Detection of a whitelisted fqdn is ever appended, counted, saved or
\* emitted by the handling of certificate_update messages.
C1_WhitelistDominance ==
    /\ (Analyzed /\ Whitelisted(call.domain)) => ret = None
    /\ \A d \in Recorded : ~Whitelisted(d.domain)
    /\ stats.detections = Len(detections)

\* C1 witness: _analyze_domain has returned None for a whitelisted fqdn
\* that is not in lower case and contains a brand label.
C1_Witness ==
    /\ Analyzed /\ ret = None
    /\ Whitelisted(call.domain)
    /\ call.domain # Lower(call.domain)
    /\ BrandsIn(call.domain) # {}

\* C3 -- Scorer range: every risk_score returned by _calculate_risk and
\* every risk_score stored in a Detection, the keyword-match bonus
\* included, is an integer from 0 to 100.
C3_ScorerRange ==
    /\ Scored => ret[1] \in 0..100
    /\ (Analyzed /\ ret # None) => ret.risk_score \in 0..100
    /\ \A d \in Recorded : d.risk_score \in 0..100

\* C3 witness: a keyword-match Detection has been recorded with score 100
\* whose points before the bonus and the clamp add up to more than 80.
C3_Witness ==
    \E i \in 1..Len(detections) :
        /\ detections[i].fuzzer_type = "keyword-match"
        /\ detections[i].risk_score = 100
        /\ RiskSteps(detections[i].domain, "keyword-match", prog = "cli").score > 80

\* a Detection d names the rule and the brand that the claim C4 demands
C4_RuleAndBrand(d) ==
    IF BrandsIn(d.domain) # {}
    THEN /\ d.fuzzer_type = "keyword-match"
         /\ \E i \in BrandsIn(d.domain) :
               /\ d.target = ConfiguredBrands[i]
               /\ \A j \in BrandsIn(d.domain) : i <= j
    ELSE d.fuzzer_type # "keyword-match"

\* C4 -- Keyword-match outranks fuzzer-match: a fqdn that is not whitelisted
\* and contains a brand label yields a Detection with rule keyword-match
\* and the first contained brand in configured order; a Detection of a
\* fqdn that contains no brand label never has rule keyword-match.
C4_KeywordOutranks ==
    /\ (Analyzed /\ ~Whitelisted(call.domain) /\ BrandsIn(call.domain) # {})
          => ret # None
    /\ (Analyzed /\ ret # None) => C4_RuleAndBrand(ret)
    /\ \A d \in Recorded : C4_RuleAndBrand(d)

\* C4 witness: a keyword-match Detection has been returned for a fqdn that
\* contains two brand labels and that the permutation index matches too.
C4_Witness ==
    /\ Analyzed /\ ret # None
    /\ ret.fuzzer_type = "keyword-match"
    /\ Cardinality(BrandsIn(call.domain)) >= 2
    /\ lookup(hashSeed, db, call.domain) # None

\* the label left of the TLD, "" for a fqdn of one label
SecondLevelLabel(fqdn) ==
    LET parts == Split(Lower(fqdn))
    IN  IF Len(parts) >= 2 THEN parts[Len(parts) - 1] ELSE ""

\* the sum of the points of the rows of the scoring table that fqdn and
\* rule_kind trigger, the hyphen row being triggered when `hyphens` holds
\* and the keyword-match bonus being left to KeywordPoints
TablePoints(fqdn, rule_kind, hyphens) ==
    LET low == Lower(fqdn)
    IN  (IF rule_kind \in {"homoglyph", "bitsquatting"} THEN 40
         ELSE IF rule_kind \in {"addition", "hyphenation"} THEN 30
         ELSE 25)
      + (IF \E tld \in Range(suspicious_tlds) : EndsWith(low, tld) THEN 25 ELSE 0)
      + (IF hyphens THEN 15 ELSE 0)
      + (IF Len(low) > 30 THEN 10 ELSE 0)
      + (IF \E word \in Range(security_words) : Contains(low, word) THEN 15 ELSE 0)
      + (IF \E i \in 1..Len(low) : SubSeq(low, i, i) \in
              {"0", "1", "2", "3", "4", "5", "6", "7", "8", "9"} THEN 5 ELSE 0)

\* the bonus of the keyword-match row, applied after its base of 25
KeywordPoints(rule_kind) == IF rule_kind = "keyword-match" THEN 20 ELSE 0

\* C5 -- as claimed: the score of the CLI scorer is min(100, points of the
\* table), the hyphen row firing exactly when the second-level label has
\* at least 2 hyphens.
C5_TableSecondLevelHyphens ==
    prog = "cli" =>
        /\ Scored =>
              ret[1] = Min(100, TablePoints(call.domain, call.fuzzer_type,
                               Count(SecondLevelLabel(call.domain), "-") >= 2))
        /\ \A d \in Recorded \cup (IF Analyzed /\ ret # None THEN {ret} ELSE {}) :
              d.risk_score = Min(100, KeywordPoints(d.fuzzer_type) +
                                          TablePoints(d.domain, d.fuzzer_type,
                                              Count(SecondLevelLabel(d.domain), "-") >= 2))

\* C5 -- amended: the score of the CLI scorer is min(100, points of the
\* table), the hyphen row firing exactly when the whole lowercased fqdn
\* has at least 2 hyphens; kbank-secure.xyz scores 85.
C5_TableFqdnHyphens ==
    prog = "cli" =>
        /\ Scored =>
              ret[1] = Min(100, TablePoints(call.domain, call.fuzzer_type,
                               Count(Lower(call.domain), "-") >= 2))
        /\ \A d \in Recorded \cup (IF Analyzed /\ ret # None THEN {ret} ELSE {}) :
              d.risk_score = Min(100, KeywordPoints(d.fuzzer_type) +
                                          TablePoints(d.domain, d.fuzzer_type,
                                              Count(Lower(d.domain), "-") >= 2))
        /\ Analyzed /\ call.domain = "kbank-secure.xyz" =>
              ret # None /\ ret.risk_score = 85

\* C5 witness: the CLI scorer has scored a fqdn with at least 2 hyphens of
\* which fewer than 2 are in its second-level label.
C5_Witness ==
    /\ prog = "cli" /\ Scored
    /\ Count(Lower(call.domain), "-") >= 2
    /\ Count(SecondLevelLabel(call.domain), "-") < 2

\* the generators that produce the label from the brand
GeneratorsOf(brand, label) ==
    {i \in 1..Len(fuzzers) : <<label, fuzzers[i]>> \in TargetPermutations[brand]}

\* C6 -- Tie-break by generator order: every key of a built index carries
\* the rule_kind of the generator listed earliest among the generators that
\* produce the key from its brand.
C6_TieBreakByGeneratorOrder ==
    Built => \A k \in DOMAIN ret :
                \E i \in GeneratorsOf(ret[k][1], k) :
                    /\ ret[k][2] = fuzzers[i]
                    /\ \A j \in GeneratorsOf(ret[k][1], k) : i <= j

\* C7 -- Idempotent index: a second build of the index from the same
\* TargetConfig yields the same map as the first, whatever the order in
\* which the unordered permutation sets are visited.
C7_IdempotentIndex == Built => ret = db

\* single labels and adjacent pairs of the fqdn that are keys of the index
SingleHits(permutations, parts) ==
    {i \in 1..Len(parts) : parts[i] \in DOMAIN permutations}

PairHits(permutations, parts) ==
    {i \in 1..(Len(parts) - 1) : (parts[i] \o parts[i + 1]) \in DOMAIN permutations}

Least(S) == CHOOSE i \in S : \A j \in S : i <= j

\* the result is what the substring check may return: the value of a key
\* contained in the fqdn without its last label, or None when there is none
SubstringResult(permutations, parts, result) ==
    LET keys == IF Len(parts) >= 2
                THEN {k \in DOMAIN permutations :
                         Contains(Join(SubSeq(parts, 1, Len(parts) - 1)), k)}
                ELSE {}
    IN  IF keys = {} THEN result = None
        ELSE \E k \in keys : permutations[k] = result

\* C8 -- as claimed: lookup returns the value of the first single label in
\* the map; an adjacent pair is consulted only when no single label is in
\* the map, and the substring check only after both.
C8_ThreePhaseLookup ==
    LookedUp =>
        LET parts == Split(Lower(call.domain))
            singles == SingleHits(call.permutations, parts)
            pairs == PairHits(call.permutations, parts)
        IN  IF singles # {}
            THEN call.permutations[parts[Least(singles)]] = ret
            ELSE IF pairs # {}
            THEN call.permutations[parts[Least(pairs)] \o parts[Least(pairs) + 1]] = ret
            ELSE SubstringResult(call.permutations, parts, ret)

\* C8 -- amended: lookup consults, position by position from the left, the
\* label p[i] and then the pair p[i]+p[i+1], and returns the value of the
\* first of these in the map: a pair at position i is preferred to every
\* single label right of i; the substring check runs only when no label
\* and no pair is in the map.
C8_InterleavedLookup ==
    LookedUp =>
        LET parts == Split(Lower(call.domain))
            singles == SingleHits(call.permutations, parts)
            pairs == PairHits(call.permutations, parts)
        IN  IF singles # {} /\ \A j \in pairs : Least(singles) <= j
            THEN call.permutations[parts[Least(singles)]] = ret
            ELSE IF pairs # {}
            THEN call.permutations[parts[Least(pairs)] \o parts[Least(pairs) + 1]] = ret
            ELSE SubstringResult(call.permutations, parts, ret)

\* C8 witness: lookup has returned the value of an adjacent pair for a fqdn
\* that has, right of the pair, a single label in the map with another
\* value.
C8_Witness ==
    /\ LookedUp
    /\ LET parts == Split(Lower(call.domain))
           singles == SingleHits(call.permutations, parts)
           pairs == PairHits(call.permutations, parts)
       IN  /\ singles # {} /\ pairs # {}
           /\ Least(pairs) < Least(singles)
           /\ call.permutations[parts[Least(pairs)] \o parts[Least(pairs) + 1]] = ret
           /\ call.permutations[parts[Least(singles)]] # ret

\* the brands, by position in configured order, whose permutations hold
\* the label
Claimants(label) ==
    {i \in 1..Len(ConfiguredBrands) : label \in TargetLabels[ConfiguredBrands[i]]}

\* C9 -- as claimed: a key that more than one brand can claim is mapped to
\* the lexicographically first of these brands.
C9_LexicographicallyFirstBrand ==
    Built => \A k \in DOMAIN ret :
                \A i \in Claimants(k) : ~StrLess(ConfiguredBrands[i], ret[k][1])

\* C9 -- amended: a key that more than one brand can claim is mapped, in
\* every build, to the first of these brands in configured order, and a
\* lookup of that label returns that brand.
C9_FirstConfiguredBrand ==
    Built => \A k \in DOMAIN ret :
                Cardinality(Claimants(k)) > 1 =>
                    /\ ret[k][1] = ConfiguredBrands[Least(Claimants(k))]
                    /\ db[k][1] = ConfiguredBrands[Least(Claimants(k))]
                    /\ lookup(call.seed, ret, k \o ".xyz")[1] =
                          ConfiguredBrands[Least(Claimants(k))]

\* C9 witness: an index has been built in which 'sb', an omission of both
\* 'scb' and 'gsb', is mapped to 'scb', the lexicographically later brand.
C9_Witness ==
    /\ Built
    /\ "sb" \in TargetLabels["scb"] \cap TargetLabels["gsb"]
    /\ ret["sb"][1] = "scb"
    /\ StrLess("gsb", "scb")

\* C10 -- Per-SAN fault isolation: when the handler of a certificate_update
\* has run, every SAN of the message that is a str and that _analyze_domain
\* turns into a Detection has that Detection appended by this run, also
\* when an earlier SAN of the message raised.
C10_PerSanFaultIsolation ==
    [][\A message \in Messages :
          (/\ message.message_type = "certificate_update"
           /\ is_running
           /\ CertstreamCallback(message) \/ OnCertEvent(message))
          => \A i \in 1..Len(message.data.all_domains) :
                LET san == message.data.all_domains[i]
                    domain == StripWildcard(san)
                    detection ==
                        IF prog = "cli"
                        THEN Watchtower_analyze_domain(hashSeed, db, domain, message.data)
                        ELSE Service_analyze_domain(hashSeed, db, domain, message.data)
                IN  (san # JsonNull /\ detection # None) =>
                        \E j \in (Len(detections) + 1)..Len(detections') :
                            detections'[j] = detection]_vars

\* the Detections appended by the step
Appended == {i \in DOMAIN detections' : i > Len(detections)}

\* d[x] never decreases, for every key x of the defaultdict d
KeysGrow(d, e) == \A x \in DOMAIN d : x \in DOMAIN e /\ e[x] >= d[x]

\* C14 -- Observability counters are monotonic: no step of the monitor
\* (a message, start() or stop()) decreases certs_processed, domains_checked,
\* detections, high_risk, or any by_target / by_fuzzer entry, and high_risk
\* rises by exactly the number of appended Detections of score >= 70.
C14_MonotonicCounters ==
    [][/\ stats'.certs_processed >= stats.certs_processed
       /\ stats'.domains_checked >= stats.domains_checked
       /\ stats'.detections >= stats.detections
       /\ stats'.high_risk >= stats.high_risk
       /\ KeysGrow(stats.by_target, stats'.by_target)
       /\ KeysGrow(stats.by_fuzzer, stats'.by_fuzzer)
       /\ stats'.high_risk - stats.high_risk =
             Cardinality({i \in Appended : detections'[i].risk_score >= HighRiskScore})
      ]_vars

\* C14 witness: the counters have risen, both a Detection below 70 and one
\* of at least 70 have been recorded, and the monitor has been stopped.
C14_Witness ==
    /\ ~is_running
    /\ stats.certs_processed > 0 /\ stats.domains_checked > 0
    /\ stats.high_risk > 0 /\ stats.high_risk < stats.detections
    /\ \E i \in DOMAIN detections : detections[i].risk_score < HighRiskScore

(***************************************************************************)
(* Claims on the output of the monitor under load (SpecLoad).              *)
(***************************************************************************)

\* C11 -- Backpressure: with subscribers that never consume, the number of
\* Detections the monitor holds in memory never exceeds the capacity of its
\* bounded buffer of Detections, the oldest being dropped when it is full.
C11_BoundedDetections ==
    /\ Len(stats.recent_detections) <= RecentCap
    /\ Len(detections) <= RecentCap

(***************************************************************************)
(* Claims on the subscriptions of the dashboard service (SpecFeed).        *)
(***************************************************************************)

\* C12 -- Single subscription: under every sequence of start() and stop()
\* calls at most one thread of the service is subscribed to the aggregator,
\* and no message of the firehose is processed more than once.
C12_SingleSubscription ==
    /\ Cardinality(Listening) <= 1
    /\ IF wire = None THEN TRUE ELSE wire.processed <= 1

\* the effects a message can have on the service
Effects == <<stats, detections, output, emitted, errors>>

\* C13 -- Stop observed at message boundaries: while is_running is false,
\* a call of _on_cert_event changes no counter, appends no Detection, writes
\* nothing to the log and emits nothing.
C13_StopAtMessageBoundary ==
    [][(~is_running /\ Deliver) => UNCHANGED Effects]_vars

\* C13 witness: after stop(), the thread that is still subscribed has
\* called back with a certificate of a look-alike domain, to no effect.
C13_Witness ==
    /\ ~is_running
    /\ wire # None
    /\ wire.message.message_type = "certificate_update"
    /\ wire.message.data.all_domains = <<"sb.xyz">>
    /\ wire.left = 0 /\ wire.processed = 0
    /\ Listening # {}
    /\ stats = NewStats /\ detections = <<>> /\ output = <<>> /\ emitted = <<>>

(***************************************************************************)
(* Claims on the three-layer analyzer (SpecDeep).                          *)
(***************************************************************************)

\* analyze has returned the result ret
Returned == pc = "idle" /\ ret # Pending

\* C15 -- Partial scores are clamped independently: the Layer-1 score and
\* the Layer-2 score of every result lie in 0..100.
C15_PartialScoresInRange ==
    Returned => ret.layer1.score \in 0..100 /\ ret.layer2.score \in 0..100

\* C16 -- Only the Bouncer runs on unregistered domains: when Layer 1 says
\* is_registered = false, the layer2 and layer3 records of the result that
\* analyze returns are the untouched defaults.
C16_OnlyBouncerOnUnregistered ==
    (Returned /\ ~ret.layer1.is_registered) =>
        ret.layer2 = NewLayer2 /\ ret.layer3 = NewLayer3

\* a step of Layer 2 that met a browser launch failure or a broken pipe
Fault(sc) == sc.launch = "fail" \/ sc.context \in Crash \/ sc.exit \in Crash

\* the step is a whole call of _layer2_detective
Layer2Step == pc = "layer2" /\ pc' = "layer3"

FellBack ==
    IF pc \in {"layer3", "idle"} /\ call # None
    THEN (IF call.sc = Pending THEN FALSE ELSE call.sc.get # NoGet)
    ELSE FALSE

\* the score of the Layer2Result that was handed to the fallback
ScoreBefore ==
    IF call.sc.exit \in Crash
    THEN L2_Visit(NewLayer2, "https://" \o call.domain, call.include_screenshot,
                  call.include_dom, call.sc.goto, call.sc.page).score
    ELSE 0

\* C18 -- HTTP fallback never throws: whatever the GET does, the fallback
\* returns a Layer2Result whose page_accessible is true exactly when the
\* GET returned a response and, when the GET failed, whose last factor
\* tells the failure and whose score is the one it was given.
C18_FallbackReflectsFetch ==
    FellBack =>
        /\ ret.layer2.page_accessible = (call.sc.get.kind \in {"response", "read_error"})
        /\ call.sc.get.kind # "response" =>
              /\ ret.layer2.score = ScoreBefore
              /\ ret.layer2.factors[Len(ret.layer2.factors)] \in
                    {"HTTP error: 404", "URL error", "Fallback analysis error"}

\* the number n of the Judge mapping, from the Layer-1 and Layer-2 records
JudgeN ==
    (IF ret.layer1.is_registered THEN 1 ELSE 0)
    + (IF ret.layer1.fuzzer_type = "homoglyph" THEN 2 ELSE 0)
    + (IF \E i \in DOMAIN ret.layer1.factors :
             StartsWith(ret.layer1.factors[i], "Suspicious TLD") THEN 1 ELSE 0)
    + (IF ret.layer2.dom_analysis = None THEN 0
       ELSE (IF ret.layer2.page_accessible /\ ret.layer2.dom_analysis.has_login_form
             THEN 2 ELSE 0)
            + (IF ret.layer2.dom_analysis.thai_keywords_found # <<>> THEN 2 ELSE 0)
            + (IF ret.layer2.dom_analysis.has_password_field THEN 2 ELSE 0))

\* C19 -- Judge mapping: Layer 3 returns score 10 n and, for n >= 4,
\* (phishing, takedown, min(0.95, 0.60 + 0.08 n)); for n in 2..3,
\* (suspicious, investigate, min(0.85, 0.50 + 0.10 n)); for n = 1,
\* (suspicious, monitor, 0.50); for n = 0, (unknown, monitor, 0.30).
C19_JudgeMapping ==
    Returned =>
        /\ ret.layer3.score = 10 * JudgeN
        /\ <<ret.layer3.verdict, ret.layer3.recommendation, ret.layer3.confidence>> =
              IF JudgeN >= 4 THEN <<"phishing", "takedown", Min(95, 60 + 8 * JudgeN)>>
              ELSE IF JudgeN >= 2
              THEN <<"suspicious", "investigate", Min(85, 50 + 10 * JudgeN)>>
              ELSE IF JudgeN = 1 THEN <<"suspicious", "monitor", 50>>
              ELSE <<"unknown", "monitor", 30>>

\* C19 witness: a registered homoglyph domain on a suspicious TLD whose page
\* has a login form, a password field and keywords: n = 10, confidence 0.95.
C19_Witness ==
    /\ Returned
    /\ ret.layer1.fuzzer_type = "homoglyph"
    /\ ret.layer3.score = 100
    /\ ret.layer3.verdict = "phishing"
    /\ ret.layer3.confidence = 95

\* C20 -- Final score and recommendation: final_score is
\* floor(0.3 L1 + 0.4 L2 + 0.3 L3) clamped to 0..100, and the recommendation
\* of the result follows from final_score alone: takedown from 80,
\* investigate from 60, monitor from 40, safe below.
C20_FinalScore ==
    Returned =>
        /\ ret.final_score =
              Min(100, (3 * ret.layer1.score + 4 * ret.layer2.score
                        + 3 * ret.layer3.score) \div 10)
        /\ ret.final_score >= 0
        /\ ret.recommendation =
              IF ret.final_score >= 80 THEN "takedown"
              ELSE IF ret.final_score >= 60 THEN "investigate"
              ELSE IF ret.final_score >= 40 THEN "monitor"
              ELSE "safe"

\* C20 witness: a result whose weighted sum is above 100, so that the
\* clamp acts.
C20_Witness ==
    /\ Returned
    /\ 3 * ret.layer1.score + 4 * ret.layer2.score + 3 * ret.layer3.score > 1000
    /\ ret.final_score = 100

(***************************************************************************)
(* Claims that relate two analyses (SpecDeep).                             *)
(***************************************************************************)

\* the evidence items of a result: the factors of Layer 1 and Layer 2 and
\* the findings of Layer 2 that the Judge counts
Evidence(result) ==
    result.layer1.factors \o result.layer2.factors
    \o (IF result.layer2.page_accessible THEN <<"page_accessible">> ELSE <<>>)
    \o (IF result.layer2.dom_analysis = None THEN <<>>
        ELSE (IF result.layer2.dom_analysis.has_login_form
              THEN <<"has_login_form">> ELSE <<>>)
             \o (IF result.layer2.dom_analysis.has_password_field
                 THEN <<"has_password_field">> ELSE <<>>)
             \o (IF result.layer2.dom_analysis.thai_keywords_found # <<>>
                 THEN <<"thai_keywords_found">> ELSE <<>>))

\* how often x is in the list s
Times(s, x) == Cardinality({i \in DOMAIN s : s[i] = x})

\* every item of s is in t at least as often
SubBag(s, t) == \A i \in DOMAIN s : Times(s, s[i]) <= Times(t, s[i])

\* what the claims compare of an analysis
Summary(result) ==
    [target_domain |-> result.target_domain, evidence |-> Evidence(result),
     layer1 |-> result.layer1.factors,
     n |-> result.layer3.score \div 10, verdict |-> result.layer3.verdict,
     recommendation |-> result.layer3.recommendation,
     final_score |-> result.final_score]

\* what _layer2_detective can return for each name of SpecDeep
Layer2Results ==
    [domain \in DeepFqdns |->
        {_layer2_detective(domain, s[1], s[2], TRUE, sc).result :
            s \in {<<TRUE, TRUE>>, <<TRUE, FALSE>>, <<FALSE, TRUE>>},
            sc \in ScenariosBrowser} \cup
        {_layer2_detective(domain, TRUE, TRUE, FALSE, sc).result :
            sc \in ScenariosFallback}]

\* the analyses of every input of SpecDeep
AllAnalyses ==
    UNION {{Summary(analyze(domain, target_domain,
                            _layer1_bouncer(domain, target_domain, dns), layer2)) :
               layer2 \in IF dns.ok THEN Layer2Results[domain] \cup {NewLayer2}
                          ELSE {NewLayer2}} :
           domain \in DeepFqdns, target_domain \in DeepTargets, dns \in DnsAnswers}

\* C21 -- Layer monotonicity: of two analyses against the same target, the
\* one whose Layer-1 and Layer-2 evidence includes the evidence of the
\* other has a final_score that is not smaller.
C21_LayerMonotonicity ==
    Returned =>
        \A a \in AllAnalyses :
            (a.target_domain = ret.target_domain /\ SubBag(a.evidence, Evidence(ret)))
                => a.final_score <= ret.final_score

\* C21 witness: the analysis of a registered name with a deceptive addition
\* that a homoglyph name without it is below: the addition has replaced
\* fuzzer_type homoglyph.
C21_Witness ==
    /\ Returned
    /\ ret.layer1.fuzzer_type = "addition"
    /\ ret.layer1.is_registered
    /\ \E i \in DOMAIN ret.layer1.factors :
           ret.layer1.factors[i] = "Uses lookalike characters (homoglyph)"
    /\ \E a \in AllAnalyses :
           /\ a.target_domain = ret.target_domain
           /\ SubBag(a.evidence, Evidence(ret))
           /\ ~SubBag(Evidence(ret), a.evidence)
           /\ a.n > ret.layer3.score \div 10
           /\ a.final_score < ret.final_score

\* the rank of a verdict and of a recommendation of the Judge
Rank(word) ==
    CASE word \in {"unknown", "safe"} -> 0
      [] word \in {"suspicious", "monitor"} -> 1
      [] word = "investigate" -> 2
      [] word \in {"phishing", "takedown"} -> 3

\* the evidence of Layer 2 in a summary
Layer2Evidence(a) == SubSeq(a.evidence, Len(a.layer1) + 1, Len(a.evidence))

\* C28 -- Verdict monotonicity: an analysis that has one more Layer-1
\* evidence item than an otherwise identical one (same target, same Layer-2
\* evidence) has no smaller indicator count and no lower verdict and
\* recommendation of the Judge.
C28_VerdictMonotonicity ==
    Returned =>
        \A a \in AllAnalyses :
            (/\ a.target_domain = ret.target_domain
             /\ Len(ret.layer1.factors) = Len(a.layer1) + 1
             /\ SubBag(a.layer1, ret.layer1.factors)
             /\ Layer2Evidence(a) = Layer2Evidence(Summary(ret)))
            => /\ a.n <= ret.layer3.score \div 10
               /\ Rank(a.verdict) <= Rank(ret.layer3.verdict)
               /\ Rank(a.recommendation) <= Rank(ret.layer3.recommendation)

(***************************************************************************)
(* Claims on single analyses (SpecDeep), continued.                        *)
(***************************************************************************)

\* C29 -- Unregistered domains are never escalated: a result whose Layer 1
\* says is_registered = false has at most 3 indicators, a verdict other
\* than phishing, a Layer-3 recommendation other than takedown, a
\* final_score below 40 and the final recommendation safe.
C29_UnregisteredNotEscalated ==
    (Returned /\ ~ret.layer1.is_registered) =>
        /\ ret.layer3.score <= 30
        /\ ret.layer3.verdict # "phishing"
        /\ ret.layer3.recommendation # "takedown"
        /\ ret.final_score < 40
        /\ ret.recommendation = "safe"

\* C29 witness: an unregistered homoglyph name on a suspicious TLD has been
\* analysed: three indicators, (suspicious, investigate), final result safe.
C29_Witness ==
    /\ Returned /\ ~ret.layer1.is_registered
    /\ ret.layer3.score = 30 /\ ret.layer3.recommendation = "investigate"
    /\ ret.recommendation = "safe"

(***************************************************************************)
(* Scenario claims.                                                        *)
(***************************************************************************)

\* C25 -- Transposition scenario: 'kbamk' is among the transpositions of
\* 'kbank', and the live monitor answers 'kbamk.com' with a Detection of
\* (kbank, transposition) whose first factor is the base row of +25.
C25_TranspositionScenario ==
    (Analyzed /\ call.domain = "kbamk.com") =>
        /\ "kbamk" \in _transposition("kbank")
        /\ ret # None
        /\ <<ret.target, ret.fuzzer_type>> = <<"kbank", "transposition">>
        /\ ret.risk_factors[1] = "Typosquatting: transposition"
        /\ ret.risk_score >= 25

\* C27 -- One shared scoring model: what _calculate_risk returns in the
\* dashboard service is what Watchtower._calculate_risk returns for the same
\* fqdn, brand and rule: the same score and the same list of factors.
C27_SharedScoringModel ==
    (Scored /\ prog = "svc") =>
        ret = Watchtower_calculate_risk(call.domain, "kbank", call.fuzzer_type)

\* C26 -- Homoglyph scenario: the analysis of 'krunqthai.com' against
\* 'krungthai' has fuzzer_type homoglyph and a Layer-1 score of 30, and 20
\* more when the name resolves; the Risk Scorer gives the pair the row
\* "High-risk fuzzer" of +40; and when the name resolves, the Judge counts
\* at least 2 indicators and says suspicious.
C26_HomoglyphScenario ==
    (Returned /\ call.domain = "krunqthai.com" /\ call.target_domain = "krungthai.com") =>
        /\ ret.layer1.fuzzer_type = "homoglyph"
        /\ ret.layer1.score = 30 + (IF ret.layer1.is_registered THEN 20 ELSE 0)
        /\ Watchtower_calculate_risk("krunqthai.com", "krungthai", "homoglyph") =
              <<40, <<"High-risk fuzzer: homoglyph">>>>
        /\ ret.layer1.is_registered =>
              ret.layer3.score >= 20 /\ ret.layer3.verdict = "suspicious"

\* the sum of the values of a defaultdict(int)
RECURSIVE SumValues(_)
SumValues(d) ==
    IF DOMAIN d = {} THEN 0
    ELSE LET key == CHOOSE key \in DOMAIN d : TRUE
         IN  d[key] + SumValues([k \in DOMAIN d \ {key} |-> d[k]])

LegitimateForms(brand) ==
    {pre \o brand \o tld : pre \in {"", "www."}, tld \in {".com", ".co.th", ".th"}}

\* the brands that are a substring of the fqdn, which is none of their
\* legitimate forms
Impersonated(fqdn) ==
    {i \in 1..Len(thai_targets) :
        Contains(fqdn, thai_targets[i]) /\ fqdn \notin LegitimateForms(thai_targets[i])}

\* C22: quick_check reports is_suspicious exactly when a protected brand is
\* a substring of the lower-cased fqdn and the fqdn is none of the six
\* legitimate forms of that brand; matched_target is then such a brand
C22_QuickCheckContract ==
    (prog = "scanner" /\ call # None /\ call.fn = "quick_check" /\ ret.status = 200) =>
        /\ ret.is_suspicious <=> Impersonated(ret.domain) # {}
        /\ ret.is_suspicious =>
              \E i \in Impersonated(ret.domain) : ret.matched_target = thai_targets[i]

\* C23: the permutations and the scan results never hold the target itself,
\* and the counts of a scan count variants only
C23_VariantsOnly ==
    (prog = "scanner" /\ call # None /\ ret.status = 200) =>
        /\ call.fn = "permutations" =>
              \A i \in 1..Len(ret.permutations) : ret.permutations[i].domain # ret.target
        /\ call.fn = "scan" =>
              /\ \A i \in 1..Len(ret.results) : ret.results[i].domain # ret.target
              /\ ret.total_permutations =
                     Cardinality({i \in 1..Len(ret.results) :
                                     ret.results[i].domain # ret.target})

\* the permutations generated for the target of the scan that returned
Generated == SimpleFuzzer_generate(SimpleFuzzer(ret.target))

\* C24: a scan that returns holds exactly one result per generated
\* permutation, whatever the order in which the resolvers completed and
\* whichever of them failed; the results are in non-increasing order of
\* risk_score and the three counts are those of the results
C24_ScanSummary ==
    (prog = "scanner" /\ call # None /\ call.fn = "scan" /\ ret.status = 200) =>
        /\ Len(ret.results) = Len(Generated)
        /\ \A p \in 1..Len(Generated) :
              Cardinality({i \in 1..Len(ret.results) :
                              /\ ret.results[i].domain = Generated[p].domain
                              /\ ret.results[i].fuzzer = Generated[p].fuzzer}) = 1
        /\ \A i \in 1..(Len(ret.results) - 1) :
              ret.results[i].risk_score >= ret.results[i + 1].risk_score
        /\ ret.total_permutations = Len(ret.results)
        /\ ret.registered_count =
               Cardinality({i \in 1..Len(ret.results) : ret.results[i].is_registered})
        /\ ret.high_risk_count =
               Cardinality({i \in 1..Len(ret.results) :
                               ret.results[i].risk_score >= HighRiskScore})

\* a scan returned whose resolvers completed out of submission order, some
\* failing and some not, with a high-risk result among the results
C24_Witness ==
    /\ prog = "scanner" /\ call # None /\ call.fn = "scan" /\ ret.status = 200
    /\ call.reversed /\ call.shift > 0
    /\ ret.registered_count > 0 /\ ret.registered_count < ret.total_permutations
    /\ ret.high_risk_count > 0
    /\ ret.results[1].risk_score > ret.results[Len(ret.results)].risk_score
====
